---- MODULE Spec2Model ----
(***************************************************************************)
(* Model of the mobile client's service layer of ai-note-summarizer:       *)
(*   - summariesApi.generateWithPolling (services/api, src/unnamed/part_000)*)
(*   - storage / guestStorage / userStorage  (src/unnamed/part_000)         *)
(*   - useUser.initializeUser / clearUser    (hooks, src/README.md)         *)
(* One invocation of generateWithPolling is a small state machine whose    *)
(* suspension points are the awaits of the source: the submit request, the *)
(* poll timer and the job-status request.                                  *)
(***************************************************************************)
EXTENDS Integers, Sequences, FiniteSets, TLC

(***************************************************************************)
(* JavaScript values.  An optional string field that the service omits is  *)
(* UNDEFINED, a null job id is NULL, an omitted numeric field is NoNumber   *)
(* (service numbers are never negative).  Falsy is JavaScript truthiness,  *)
(* which is what the source's `||` and `!` test.                           *)
(***************************************************************************)
UNDEFINED == "undefined"
NULL == "null"
NoNumber == 0 - 1

FalsyStr(s) == s \in {UNDEFINED, NULL, ""}
FalsyNum(n) == n \in {NoNumber, 0}

\* a || b on strings and on numbers
OrStr(a, b) == IF FalsyStr(a) THEN b ELSE a
OrNum_noDefault(a, b) == a
OrNum(a, b) == IF FalsyNum(a) THEN b ELSE a

(***************************************************************************)
(* Program constants.                                                      *)
(***************************************************************************)
maxAttempts == 180
POLL_INTERVAL == 2000
pollInterval == IF POLL_INTERVAL = 0 THEN 2000 ELSE POLL_INTERVAL

(***************************************************************************)
(* Bounds of the model.                                                    *)
(***************************************************************************)
\* the number of progress events that the observer's log keeps verbatim (later
\* ones are only counted); the log of job-status responses keeps one fewer,
\* the first progress event being the one that precedes the submit
MaxLog == 5
\* note ids range over 1..MaxNoteId
MaxNoteId == 2

NoteIds == 1..MaxNoteId

(***************************************************************************)
(* Transport: the response interceptor turns every axios failure into an   *)
(* ApiServiceError.  An axios error either carries a response (status and  *)
(* possibly a body with a detail) or not (response status 0 here).         *)
(***************************************************************************)
AxiosErrors ==
  { [response |-> FALSE, status |-> 0,   bodyDetail |-> UNDEFINED, message |-> "Network Error"],
    [response |-> TRUE,  status |-> 404, bodyDetail |-> "Job not found", message |-> "Request failed with status code 404"],
    [response |-> TRUE,  status |-> 503, bodyDetail |-> UNDEFINED, message |-> "Request failed with status code 503"],
    [response |-> TRUE,  status |-> 400, bodyDetail |-> "", message |-> "Request failed with status code 400"] }
NoAxiosError == [response |-> FALSE, status |-> 0, bodyDetail |-> UNDEFINED, message |-> ""]

ApiServiceError(message, status, detail) ==
  [name |-> "ApiServiceError", message |-> message, status |-> status, detail |-> detail]

\* messages are sequences of string pieces, so that a template literal is the
\* sequence of its parts: `API Error: ${detail}`
Msg(text) == <<text>>
ApiErrorMessage(detail) == <<"API Error: ", detail>>

responseInterceptor_messageOnly(error) ==
  LET status == IF error.response /\ error.status # 0 THEN error.status ELSE 500
      detail == error.message
  IN ApiServiceError(ApiErrorMessage(detail), status, detail)

responseInterceptor(error) ==
  LET status == IF error.response /\ error.status # 0 THEN error.status ELSE 500
      detail == IF error.response THEN OrStr(error.bodyDetail, error.message) ELSE error.message
  IN ApiServiceError(ApiErrorMessage(detail), status, detail)

JsError(message) == [name |-> "Error", message |-> message, status |-> 0, detail |-> UNDEFINED]
NoError == [name |-> "none", message |-> <<>>, status |-> 0, detail |-> UNDEFINED]
\* what a raising onProgress callback throws
CallbackError == [name |-> "CallbackError", message |-> Msg("raised in onProgress"), status |-> 0, detail |-> UNDEFINED]

(***************************************************************************)
(* AsyncJobResponse and its summary payload.                               *)
(***************************************************************************)
NoPayload == [absent |-> TRUE]

Payload(id, provider, model, time, tokens, ratio, created) ==
  [id |-> id, content |-> "text", summary_type |-> "summary", summary_length |-> "medium",
   ai_provider |-> provider, ai_model |-> model, generation_time_ms |-> time,
   token_count |-> tokens, compression_ratio |-> ratio, created_at |-> created]

\* every optional field given / every optional field omitted / every
\* optional field given but falsy / a mix
FullPayload   == Payload(7, "openai", "gpt-4", 1200, 350, 4, "2024-01-01")
SparsePayload == Payload(8, UNDEFINED, UNDEFINED, NoNumber, NoNumber, NoNumber, UNDEFINED)
FalsyPayload  == Payload(9, "", "", 0, 0, 0, "")
MixedPayload  == Payload(7, "openai", UNDEFINED, 1200, NoNumber, 4, UNDEFINED)

Payloads == {FullPayload, SparsePayload, FalsyPayload, MixedPayload}

AsyncJobResponse(job_id, status, progress, cached, summary, error) ==
  [job_id |-> job_id, status |-> status, progress |-> progress, cached |-> cached,
   summary |-> summary, error |-> error]

NoResponse == [absent |-> TRUE]

\* progress is a number; it is kept in tenths of a percent so that
\* Math.round has something to round
ProgressTenths == {296}
MathRound(tenths) == (tenths + 5) \div 10

\* what POST .../async may answer
SubmitResponses ==
  { AsyncJobResponse(j, s, 0, TRUE, p, UNDEFINED) :
      j \in {NULL, "", "job-1"}, s \in {"pending", "completed"}, p \in Payloads }
  \cup
  { AsyncJobResponse(j, "pending", 0, c, NoPayload, UNDEFINED) :
      j \in {NULL, "", "job-1"}, c \in BOOLEAN }
  \cup
  { AsyncJobResponse(NULL, "pending", 0, FALSE, FullPayload, UNDEFINED) }

\* what GET .../jobs/{jobId} may answer
StatusResponses ==
  { AsyncJobResponse("job-1", "pending", 0, FALSE, NoPayload, UNDEFINED) }
  \cup
  { AsyncJobResponse("job-1", "processing", p, FALSE, NoPayload, UNDEFINED) : p \in ProgressTenths }
  \cup
  { AsyncJobResponse("job-1", "completed", 1000, FALSE, p, UNDEFINED) : p \in Payloads \cup {NoPayload} }
  \cup
  { AsyncJobResponse("job-1", "failed", 0, FALSE, NoPayload, e) : e \in {UNDEFINED, "", "boom"} }

(***************************************************************************)
(* The Summary that generateWithPolling returns, on its two paths.         *)
(***************************************************************************)
Now == "now"

cachedSummary(noteId_, s) ==
  [id |-> s.id, note_id |-> noteId_, content |-> s.content,
   summary_type |-> s.summary_type, summary_length |-> s.summary_length,
   ai_provider |-> OrStr(s.ai_provider, "unknown"), ai_model |-> OrStr(s.ai_model, "cached"),
   generation_time_ms |-> OrNum(s.generation_time_ms, 0), token_count |-> OrNum(s.token_count, 0),
   compression_ratio |-> OrNum(s.compression_ratio, 0), created_at |-> OrStr(s.created_at, Now)]

polledSummary_cachedModel(noteId_, s) ==
  [id |-> s.id, note_id |-> noteId_, content |-> s.content,
   summary_type |-> s.summary_type, summary_length |-> s.summary_length,
   ai_provider |-> OrStr(s.ai_provider, "unknown"), ai_model |-> OrStr(s.ai_model, "cached"),
   generation_time_ms |-> OrNum(s.generation_time_ms, 0), token_count |-> OrNum(s.token_count, 0),
   compression_ratio |-> OrNum(s.compression_ratio, 0), created_at |-> OrStr(s.created_at, Now)]

polledSummary(noteId_, s) ==
  [id |-> s.id, note_id |-> noteId_, content |-> s.content,
   summary_type |-> s.summary_type, summary_length |-> s.summary_length,
   ai_provider |-> OrStr(s.ai_provider, "unknown"), ai_model |-> OrStr(s.ai_model, "unknown"),
   generation_time_ms |-> OrNum(s.generation_time_ms, 0), token_count |-> OrNum(s.token_count, 0),
   compression_ratio |-> OrNum(s.compression_ratio, 0), created_at |-> OrStr(s.created_at, Now)]

(***************************************************************************)
(* State of one generateWithPolling invocation.                            *)
(***************************************************************************)
VARIABLES
  pc,          \* "idle", "submitting", "waiting", "querying", "done"
  noteId,      \* the noteId argument
  onProgress,  \* "none": no callback; "ok": a callback that returns; "raises": one that may throw
  job,         \* the submit response, NoResponse before it arrives
  attempt,     \* the loop counter
  status,      \* the job-status response of the current loop iteration (block scoped:
               \* NoResponse outside the part of the body that follows the await)
  outcome,     \* [kind |-> "pending"] or resolved with a value or rejected with an error
  nSubmits,    \* generateAsync calls issued
  nWaits,      \* poll-interval timers started
  nPolls,      \* getJobStatus calls issued
  netError,    \* the ApiServiceError a network call of this invocation threw
  axiosError,  \* the axios error that call had failed with
  responses,   \* the statuses of the job-status responses, first MaxLog of them
  seen,        \* the set of kinds of job-status responses received
  events,      \* the (status, message) pairs onProgress was called with, first MaxLog of them
  nEvents      \* how many times onProgress was called

pollVars == <<pc, noteId, onProgress, job, attempt, status, outcome, nSubmits, nWaits,
              nPolls, netError, axiosError, responses, seen, events, nEvents>>

(***************************************************************************)
(* State of useUser, of the storage behind it and of the remote service.   *)
(***************************************************************************)
VARIABLES
  USER_DATA,    \* the blob under STORAGE_KEYS.USER_DATA, NoUser when absent
  GUEST_ID,     \* the blob under STORAGE_KEYS.GUEST_ID, NULL when absent
  faults,       \* the kinds of the storage operations that failed so far
  remoteUsers,  \* the users the remote service knows
  user,         \* useUser state: user
  isLoading,    \* useUser state: isLoading
  error,        \* useUser state: error, NULL or a text
  call,         \* per call: the operation, its position and its locals
  nStarts,      \* the calls started so far
  firstUser,    \* the identity the first initializeUser call to complete since the
                \* last clearUser completed with, NoUser before
  settledUser,  \* the identity an initializeUser call completed with while no other
                \* call was in flight (since the last clearUser), NoUser before
  lastClear     \* "quiet": the last useUser operation to start was a clearUser that has
                \* completed with no other call in flight meanwhile; "overlapped": it
                \* completed, but not alone; "no" otherwise

userVars == <<USER_DATA, GUEST_ID, faults, remoteUsers, user, isLoading, error, call, nStarts,
              firstUser, settledUser, lastClear>>

\* the variables of useUser other than the record of storage failures
identityVars == <<USER_DATA, GUEST_ID, remoteUsers, user, isLoading, error, call, nStarts,
                  firstUser, settledUser, lastClear>>

(***************************************************************************)
(* State of notesCache and of the useNotes hook.                           *)
(***************************************************************************)
VARIABLES
  NOTES_CACHE,    \* the blob under STORAGE_KEYS.NOTES_CACHE, NoCache when absent
  now,            \* Date.now(), in ms since the start of the run
  nTicks,         \* how many times the clock has advanced
  notes,          \* useNotes state: notes (each NoteListItem stands as its id)
  notesIsLoading, \* useNotes state: isLoading
  notesError,     \* useNotes state: error, NULL or a text
  refreshCall,    \* per refresh call: its position, its locals and what it did
  nRefreshes,     \* the refresh calls started so far
  lastSet,        \* what the last notesCache.setNotes call to complete was given
  lastRead        \* the last notesCache.getNotes call to complete: when it read, what
                  \* was stored and last set then, whether the read worked, its result

notesVars == <<NOTES_CACHE, now, nTicks, notes, notesIsLoading, notesError, refreshCall,
               nRefreshes, lastSet, lastRead>>

(***************************************************************************)
(* State of two generateWithPolling invocations that run interleaved.      *)
(***************************************************************************)
VARIABLES
  inv,          \* per invocation: its position, its job id, its outcome, what it did
  attemptCell   \* the loop counters

pairVars == <<inv, attemptCell>>

(***************************************************************************)
(* State of one useSummary hook and of the generateSummary and             *)
(* loadSummaries calls made on it.                                         *)
(***************************************************************************)
VARIABLES
  hookNoteId,       \* the noteId the hook was given
  summaries,        \* useState<Summary[]>([])
  currentSummary,   \* useState<Summary | null>(null)
  isGenerating,     \* useState(false)
  progressMessage,  \* useState('')
  summaryError,     \* useState<string | null>(null), the hook's `error`
  gen,              \* per caller: the position of its generateSummary call
  load,             \* the position of the loadSummaries call
  nGenerations,     \* generateSummary calls started
  nLoads            \* loadSummaries calls started

summaryVars == <<hookNoteId, summaries, currentSummary, isGenerating, progressMessage,
                 summaryError, gen, load, nGenerations, nLoads>>

(***************************************************************************)
(* State of the other calls made on useNotes and useNote: deleteNote,      *)
(* createNote, updateNote; and of the calls made on the storage directly.  *)
(***************************************************************************)
VARIABLES
  deleteCall,    \* the position of the deleteNote call
  gone,          \* the notes a deleteNote removed that no list answer has returned since
  note,          \* useNote: useState<Note | null>(null)
  noteError,     \* useNote: useState<string | null>(null), the hook's `error`
  updateCall,    \* the position of the updateNote call
  nDeletes,      \* deleteNote calls started
  nNoteCreates,  \* createNote calls started
  nUpdates,      \* updateNote calls started
  nClears        \* notesCache.clearCache and storage.clear calls made

crudCallVars == <<deleteCall, note, noteError, updateCall, nDeletes, nNoteCreates, nUpdates, nClears>>
crudVars == <<crudCallVars, gone>>

vars == <<pollVars, userVars, notesVars, pairVars, summaryVars, crudVars>>


Pending == [kind |-> "pending"]
Resolved(v) == [kind |-> "resolved", value |-> v]
Rejected(e) == [kind |-> "rejected", error |-> e]

\* a log keeps its first `cap` entries
Log(log, e, cap) == IF Len(log) < cap THEN Append(log, e) ELSE log

\* the kind of a job-status response, as the loop body distinguishes them
Kind(r) == IF r.status = "completed" /\ r.summary = NoPayload THEN "completed-no-summary"
           ELSE r.status

\* status.status === 'processing' ? `Processing... (${Math.round(status.progress)}%)` : status.status
progressMsg(r) == IF r.status = "processing" THEN <<"Processing... (", MathRound(r.progress), "%)">>
                  ELSE Msg(r.status)

\* if (job.cached && job.summary)
IsCacheHit_statusToo(r) == r.cached /\ r.summary # NoPayload /\ r.status = "completed"
IsCacheHit(r) == r.cached /\ r.summary # NoPayload

\* if (!job.job_id)
HasNoJobId_nullOnly(r) == r.job_id = NULL
HasNoJobId(r) == FalsyStr(r.job_id)

\* attempt < maxAttempts
LoopCondition_inclusive(a) == a <= maxAttempts
LoopCondition(a) == a < maxAttempts

\* the first argument of onProgress(status.status, progressMsg)
eventStatus_pendingAsProcessing(r) == IF r.status = "pending" THEN "processing" ELSE r.status
eventStatus(r) == r.status

\* if (status.status === 'completed' && status.summary)
IsCompleted(r) == r.status = "completed" /\ r.summary # NoPayload

IsFailed_orNoPayload(r) == r.status = "failed" \/ (r.status = "completed" /\ r.summary = NoPayload)
\* if (status.status === 'failed')
IsFailed(r) == r.status = "failed"

\* status.error || 'Summary generation failed'
failureMessage_noDefault(r) == r.error
failureMessage(r) == OrStr(r.error, "Summary generation failed")

InitPoll ==
  /\ pc = "idle"
  /\ noteId = 0
  /\ onProgress = "none"
  /\ job = NoResponse
  /\ attempt = 0
  /\ status = NoResponse
  /\ outcome = Pending
  /\ nSubmits = 0
  /\ nWaits = 0
  /\ nPolls = 0
  /\ netError = NoError
  /\ axiosError = NoAxiosError
  /\ responses = <<>>
  /\ seen = {}
  /\ events = <<>>
  /\ nEvents = 0

(***************************************************************************)
(* onProgress(status, message): an absent callback is not called; a        *)
(* callback that may raise either returns or throws, after it was called.  *)
(***************************************************************************)
Raises(cb) == IF cb = "raises" THEN BOOLEAN ELSE {FALSE}

CallOnProgress(cb, st, message) ==
  IF cb = "none"
    THEN UNCHANGED <<events, nEvents>>
    ELSE /\ events' = Log(events, [status |-> st, message |-> message], MaxLog)
         /\ nEvents' = nEvents + 1

\* the invocation ends: the returned promise resolves or rejects
Settle(o) ==
  /\ pc' = "done"
  /\ outcome' = o

LoopHead_noWait(a) ==
  IF LoopCondition(a)
    THEN /\ pc' = "waiting"
         /\ nWaits' = nWaits
         /\ outcome' = outcome
    ELSE /\ Settle(Rejected(JsError(Msg("Summary generation timed out"))))
         /\ nWaits' = nWaits

\* the head of `for (...; attempt < maxAttempts; ...)`: either the body starts
\* with the poll-interval timer, or the loop is left and the timeout is thrown
LoopHead(a) ==
  IF LoopCondition(a)
    THEN /\ pc' = "waiting"
         /\ nWaits' = nWaits + 1
         /\ outcome' = outcome
    ELSE /\ Settle(Rejected(JsError(Msg("Summary generation timed out"))))
         /\ nWaits' = nWaits

generateWithPolling_silentStart(callbacks) ==
  \E n \in NoteIds, cb \in callbacks :
    /\ pc = "idle"
    /\ noteId' = n
    /\ onProgress' = cb
    /\ pc' = "submitting"
    /\ nSubmits' = nSubmits + 1
    /\ UNCHANGED <<job, attempt, status, outcome, nWaits, nPolls, netError, axiosError, responses, seen,
                   events, nEvents>>
    /\ UNCHANGED <<userVars, notesVars, pairVars, summaryVars, crudVars>>

\* generateWithPolling(noteId, options, onProgress) up to its first await
generateWithPolling(callbacks) ==
  \E n \in NoteIds, cb \in callbacks :
    /\ pc = "idle"
    /\ noteId' = n
    /\ onProgress' = cb
    /\ CallOnProgress(cb, "pending", Msg("Starting summary job..."))
    /\ \E raise \in Raises(cb) :
         IF raise
           THEN /\ Settle(Rejected(CallbackError))
                /\ nSubmits' = nSubmits
           ELSE /\ pc' = "submitting"
                /\ nSubmits' = nSubmits + 1
                /\ outcome' = outcome
    /\ UNCHANGED <<job, attempt, status, nWaits, nPolls, netError, axiosError, responses, seen>>
    /\ UNCHANGED <<userVars, notesVars, pairVars, summaryVars, crudVars>>

\* `await summariesApi.generateAsync(...)` returns a response
generateAsyncReturns ==
  \E r \in SubmitResponses :
    /\ pc = "submitting"
    /\ job' = r
    /\ IF IsCacheHit(r)
         THEN /\ CallOnProgress(onProgress, "completed", Msg("Using cached summary"))
              /\ \E raise \in Raises(onProgress) :
                   IF raise THEN Settle(Rejected(CallbackError))
                            ELSE Settle(Resolved(cachedSummary(noteId, r.summary)))
              /\ UNCHANGED <<attempt, nWaits>>
         ELSE /\ UNCHANGED <<events, nEvents>>
              /\ IF HasNoJobId(r)
                   THEN /\ Settle(Rejected(JsError(Msg("No job ID returned"))))
                        /\ UNCHANGED <<attempt, nWaits>>
                   ELSE /\ attempt' = 0
                        /\ LoopHead(0)
    /\ UNCHANGED <<noteId, onProgress, status, nSubmits, nPolls, netError, axiosError, responses, seen>>
    /\ UNCHANGED <<userVars, notesVars, pairVars, summaryVars, crudVars>>

\* `await summariesApi.generateAsync(...)` throws what the interceptor threw
generateAsyncFails ==
  \E e \in AxiosErrors :
    /\ pc = "submitting"
    /\ netError' = responseInterceptor(e)
    /\ axiosError' = e
    /\ Settle(Rejected(responseInterceptor(e)))
    /\ UNCHANGED <<noteId, onProgress, job, attempt, status, nSubmits, nWaits, nPolls,
                   responses, seen, events, nEvents>>
    /\ UNCHANGED <<userVars, notesVars, pairVars, summaryVars, crudVars>>

\* the poll-interval timer fires and getJobStatus(job.job_id) is issued
timerFires ==
  /\ pc = "waiting"
  /\ pc' = "querying"
  /\ nPolls' = nPolls + 1
  /\ UNCHANGED <<noteId, onProgress, job, attempt, status, outcome, nSubmits, nWaits,
                 netError, axiosError, responses, seen, events, nEvents>>
  /\ UNCHANGED <<userVars, notesVars, pairVars, summaryVars, crudVars>>

\* `await summariesApi.getJobStatus(job.job_id)` returns a response: the rest
\* of the loop body, and the loop head after it
getJobStatusReturns(answers) ==
  \E r \in answers :
    /\ pc = "querying"
    /\ responses' = Log(responses, Kind(r), MaxLog - 1)
    /\ seen' = seen \cup {Kind(r)}
    /\ CallOnProgress(onProgress, eventStatus(r), progressMsg(r))
    /\ \E raise \in Raises(onProgress) :
         IF raise
           THEN /\ Settle(Rejected(CallbackError))
                /\ status' = r
                /\ UNCHANGED <<attempt, nWaits>>
           ELSE IF IsCompleted(r)
             THEN /\ Settle(Resolved(polledSummary(noteId, r.summary)))
                  /\ status' = r
                  /\ UNCHANGED <<attempt, nWaits>>
             ELSE IF IsFailed(r)
               THEN /\ Settle(Rejected(JsError(Msg(failureMessage(r)))))
                    /\ status' = r
                    /\ UNCHANGED <<attempt, nWaits>>
               ELSE \* the iteration ends, and with it the scope of `status`
                    /\ attempt' = attempt + 1
                    /\ status' = IF LoopCondition(attempt + 1) THEN NoResponse ELSE r
                    /\ LoopHead(attempt + 1)
    /\ UNCHANGED <<noteId, onProgress, job, nSubmits, nPolls, netError, axiosError>>
    /\ UNCHANGED <<userVars, notesVars, pairVars, summaryVars, crudVars>>

\* (the same await inside a try whose catch goes on to the next attempt)
getJobStatusFails_skipped(failures) ==
  \E e \in failures :
    /\ pc = "querying"
    /\ netError' = responseInterceptor(e)
    /\ axiosError' = e
    /\ attempt' = attempt + 1
    /\ LoopHead(attempt + 1)
    /\ UNCHANGED <<noteId, onProgress, job, status, nSubmits, nPolls,
                   responses, seen, events, nEvents>>
    /\ UNCHANGED <<userVars, notesVars, pairVars, summaryVars, crudVars>>

\* `await summariesApi.getJobStatus(job.job_id)` throws what the interceptor threw
getJobStatusFails(failures) ==
  \E e \in failures :
    /\ pc = "querying"
    /\ netError' = responseInterceptor(e)
    /\ axiosError' = e
    /\ Settle(Rejected(responseInterceptor(e)))
    /\ UNCHANGED <<noteId, onProgress, job, attempt, status, nSubmits, nWaits, nPolls,
                   responses, seen, events, nEvents>>
    /\ UNCHANGED <<userVars, notesVars, pairVars, summaryVars, crudVars>>

(***************************************************************************)
(* Persistent storage (AsyncStorage behind storage.get/set/remove) and the *)
(* users endpoints of the remote service.                                  *)
(***************************************************************************)
\* the remote service creates at most MaxUsers guest users
MaxUsers == 2
\* concurrent calls of the useUser operations
MaxCalls == 2
\* storage operations that fail (and are swallowed by storage.get/set/remove)
MaxFaults == 1
\* calls of the useUser operations in one run of the app
MaxStarts == 3

Calls == 1..MaxCalls

NoUser == [absent |-> TRUE]
\* a User as far as the client looks at it: id and guest_id
User(id, guest_id) == [id |-> id, guest_id |-> guest_id]
GuestToken(k) == "guest-" \o ToString(k)


IdleCall ==
  [op |-> "none", pc |-> "idle", guestId |-> NULL, theUser |-> NoUser, yielded |-> NoUser,
   nLookups |-> 0, nCreates |-> 0, later |-> FALSE, sequel |-> FALSE,
   alone |-> FALSE, afterClear |-> "no"]

\* the app starts on a fresh installation, or with what an earlier run left:
\* a guest token the service no longer knows, a guest token it knows, or the
\* identity together with its token
InitUserAt(s) ==
  /\ USER_DATA = IF s = "identity" THEN User(0, GuestToken(0)) ELSE NoUser
  /\ GUEST_ID = IF s = "fresh" THEN NULL ELSE GuestToken(0)
  /\ remoteUsers = IF s \in {"token", "identity"} THEN {User(0, GuestToken(0))} ELSE {}
  /\ faults = <<>>
  /\ user = NoUser
  /\ isLoading = TRUE
  /\ error = NULL
  /\ call = [i \in Calls |-> IdleCall]
  /\ nStarts = 0
  /\ firstUser = NoUser
  /\ settledUser = NoUser
  /\ lastClear = "no"

InitUser == \E s \in {"fresh", "stale token", "token", "identity"} : InitUserAt(s)

\* a storage operation either works or fails; the failure is swallowed
StorageOutcomes == IF Len(faults) < MaxFaults THEN {"ok", "fails"} ELSE {"ok"}
Faults(kind, o) == IF o = "fails" THEN Append(faults, kind) ELSE faults

InFlight(i) == call[i].pc \notin {"idle", "done"}
OthersQuiet(i) == \A j \in Calls \ {i} : ~InFlight(j)

\* call i starts as `c`: it is alone if no other call is in flight, and the
\* calls in flight are no longer alone
Started(i, c) ==
  [j \in Calls |->
     IF j = i THEN [c EXCEPT !.alone = OthersQuiet(i)]
     ELSE IF InFlight(j) THEN [call[j] EXCEPT !.alone = FALSE]
     ELSE call[j]]

\* the call ends: initializeUser completed, having passed `u` to setUser
Completed(i, u) ==
  /\ lastClear' = lastClear
  /\ call' = [call EXCEPT ![i].pc = "done", ![i].yielded = u,
                          ![i].guestId = NULL, ![i].theUser = NoUser]
  /\ firstUser' = IF firstUser = NoUser THEN u ELSE firstUser
  /\ settledUser' = IF settledUser = NoUser /\ OthersQuiet(i) THEN u ELSE settledUser

initializeUser_guarded(i) ==
  /\ ~InFlight(i)
  /\ OthersQuiet(i)
  /\ UNCHANGED <<pollVars, notesVars, pairVars, summaryVars, crudVars>>
  /\ nStarts < MaxStarts
  /\ nStarts' = nStarts + 1
  /\ isLoading' = TRUE
  /\ error' = NULL
  /\ call' = Started(i, [IdleCall EXCEPT !.op = "initializeUser", !.pc = "getUser",
                                          !.later = (firstUser # NoUser),
                                          !.sequel = (settledUser # NoUser),
                                          !.afterClear = lastClear])
  /\ lastClear' = "no"
  /\ UNCHANGED <<USER_DATA, GUEST_ID, faults, remoteUsers, user, firstUser, settledUser>>

\* const initializeUser = useCallback(async () => { ...   up to the first await
initializeUser(i) ==
  /\ ~InFlight(i)
  /\ UNCHANGED <<pollVars, notesVars, pairVars, summaryVars, crudVars>>
  /\ nStarts < MaxStarts
  /\ nStarts' = nStarts + 1
  /\ isLoading' = TRUE
  /\ error' = NULL
  /\ call' = Started(i, [IdleCall EXCEPT !.op = "initializeUser", !.pc = "getUser",
                                          !.later = (firstUser # NoUser),
                                          !.sequel = (settledUser # NoUser),
                                          !.afterClear = lastClear])
  /\ lastClear' = "no"
  /\ UNCHANGED <<USER_DATA, GUEST_ID, faults, remoteUsers, user, firstUser, settledUser>>

\* if (storedUser)
HasStoredUser_never(u) == FALSE
HasStoredUser(u) == u # NoUser

\* `await userStorage.getUser()` returns
getUserReturns(i) ==
  \E o \in StorageOutcomes :
    LET storedUser == IF o = "ok" THEN USER_DATA ELSE NoUser IN
    /\ call[i].pc = "getUser"
    /\ UNCHANGED <<pollVars, notesVars, pairVars, summaryVars, crudVars>>
    /\ faults' = Faults("get", o)
    /\ IF HasStoredUser(storedUser)
         THEN /\ user' = storedUser
              /\ isLoading' = FALSE
              /\ Completed(i, storedUser)
         ELSE /\ call' = [call EXCEPT ![i].pc = "getGuestId"]
              /\ UNCHANGED <<nStarts, user, isLoading, firstUser, settledUser, lastClear>>
    /\ UNCHANGED <<nStarts, USER_DATA, GUEST_ID, remoteUsers, error>>

\* `await guestStorage.getGuestId()` returns; a lookup or a creation is issued
getGuestIdReturns(i) ==
  \E o \in StorageOutcomes :
    LET guestId == IF o = "ok" THEN GUEST_ID ELSE NULL IN
    /\ call[i].pc = "getGuestId"
    /\ UNCHANGED <<pollVars, notesVars, pairVars, summaryVars, crudVars>>
    /\ faults' = Faults("get", o)
    /\ call' = [call EXCEPT ![i] =
         IF ~FalsyStr(guestId)
           THEN [@ EXCEPT !.pc = "getByGuestId", !.guestId = guestId, !.nLookups = @ + 1]
           ELSE [@ EXCEPT !.pc = "create", !.nCreates = @ + 1]]
    /\ UNCHANGED <<nStarts, USER_DATA, GUEST_ID, remoteUsers, user, isLoading, error, firstUser, settledUser, lastClear>>

getByGuestIdReturns_recreate(i) ==
  \E existingUser \in remoteUsers :
    /\ call[i].pc = "getByGuestId"
    /\ UNCHANGED <<pollVars, notesVars, pairVars, summaryVars, crudVars>>
    /\ existingUser.guest_id = call[i].guestId
    /\ call' = [call EXCEPT ![i].pc = "create", ![i].theUser = existingUser, ![i].nCreates = @ + 1]
    /\ UNCHANGED <<nStarts, USER_DATA, GUEST_ID, faults, remoteUsers, user, isLoading, error, firstUser, settledUser, lastClear>>

\* `await api.users.getByGuestId(guestId)` returns the user
getByGuestIdReturns(i) ==
  \E existingUser \in remoteUsers :
    /\ call[i].pc = "getByGuestId"
    /\ UNCHANGED <<pollVars, notesVars, pairVars, summaryVars, crudVars>>
    /\ existingUser.guest_id = call[i].guestId
    /\ call' = [call EXCEPT ![i].pc = "setUserExisting", ![i].theUser = existingUser]
    /\ UNCHANGED <<nStarts, USER_DATA, GUEST_ID, faults, remoteUsers, user, isLoading, error, firstUser, settledUser, lastClear>>

getByGuestIdFails_surfaced(i) ==
  \E e \in AxiosErrors :
    /\ call[i].pc = "getByGuestId"
    /\ UNCHANGED <<pollVars, notesVars, pairVars, summaryVars, crudVars>>
    /\ error' = responseInterceptor(e).detail
    /\ isLoading' = FALSE
    /\ call' = [call EXCEPT ![i].pc = "done", ![i].guestId = NULL]
    /\ UNCHANGED <<nStarts, USER_DATA, GUEST_ID, faults, remoteUsers, user, firstUser, settledUser, lastClear>>
\* `await api.users.getByGuestId(guestId)` throws (not found, or no response):
\* the catch is empty and the creation is issued
getByGuestIdFails(i) ==
  /\ call[i].pc = "getByGuestId"
  /\ UNCHANGED <<pollVars, notesVars, pairVars, summaryVars, crudVars>>
  /\ call' = [call EXCEPT ![i].pc = "create", ![i].nCreates = @ + 1]
  /\ UNCHANGED <<nStarts, USER_DATA, GUEST_ID, faults, remoteUsers, user, isLoading, error, firstUser, settledUser, lastClear>>

\* `await userStorage.setUser(existingUser)` returns
setUserExistingReturns(i) ==
  \E o \in StorageOutcomes :
    /\ call[i].pc = "setUserExisting"
    /\ UNCHANGED <<pollVars, notesVars, pairVars, summaryVars, crudVars>>
    /\ faults' = Faults("set", o)
    /\ USER_DATA' = IF o = "ok" THEN call[i].theUser ELSE USER_DATA
    /\ user' = call[i].theUser
    /\ isLoading' = FALSE
    /\ Completed(i, call[i].theUser)
    /\ UNCHANGED <<nStarts, GUEST_ID, remoteUsers, error>>

\* `await api.users.create({ is_guest: true })` returns the new user, with or
\* without a guest_id
createReturns(i) ==
  \E withGuestId \in BOOLEAN :
    LET id == Cardinality(remoteUsers) + 1
        newUser == User(id, IF withGuestId THEN GuestToken(id) ELSE UNDEFINED) IN
    /\ call[i].pc = "create"
    /\ UNCHANGED <<pollVars, notesVars, pairVars, summaryVars, crudVars>>
    /\ Cardinality({u \in remoteUsers : u.id # 0}) < MaxUsers
    /\ remoteUsers' = remoteUsers \cup {newUser}
    /\ call' = [call EXCEPT ![i].pc = IF ~FalsyStr(newUser.guest_id) THEN "setGuestId" ELSE "setUserNew",
                            ![i].theUser = newUser]
    /\ UNCHANGED <<nStarts, USER_DATA, GUEST_ID, faults, user, isLoading, error, firstUser, settledUser, lastClear>>

createFails_swallowed(i) ==
  /\ call[i].pc = "create"
  /\ UNCHANGED <<pollVars, notesVars, pairVars, summaryVars, crudVars>>
  /\ isLoading' = FALSE
  /\ call' = [call EXCEPT ![i].pc = "done", ![i].guestId = NULL]
  /\ UNCHANGED <<nStarts, USER_DATA, GUEST_ID, faults, remoteUsers, user, error, firstUser, settledUser, lastClear>>

\* `await api.users.create(...)` throws: the outer catch and the finally
createFails(i) ==
  \E e \in AxiosErrors :
    /\ call[i].pc = "create"
    /\ UNCHANGED <<pollVars, notesVars, pairVars, summaryVars, crudVars>>
    /\ error' = responseInterceptor(e).detail
    /\ isLoading' = FALSE
    /\ call' = [call EXCEPT ![i].pc = "done", ![i].guestId = NULL]
    /\ UNCHANGED <<nStarts, USER_DATA, GUEST_ID, faults, remoteUsers, user, firstUser, settledUser, lastClear>>

\* `await guestStorage.setGuestId(newUser.guest_id)` returns
setGuestIdReturns(i) ==
  \E o \in StorageOutcomes :
    /\ call[i].pc = "setGuestId"
    /\ UNCHANGED <<pollVars, notesVars, pairVars, summaryVars, crudVars>>
    /\ faults' = Faults("set", o)
    /\ GUEST_ID' = IF o = "ok" THEN call[i].theUser.guest_id ELSE GUEST_ID
    /\ call' = [call EXCEPT ![i].pc = "setUserNew"]
    /\ UNCHANGED <<nStarts, USER_DATA, remoteUsers, user, isLoading, error, firstUser, settledUser, lastClear>>

\* `await userStorage.setUser(newUser)` returns; setUser(newUser) and the finally
setUserNewReturns(i) ==
  \E o \in StorageOutcomes :
    /\ call[i].pc = "setUserNew"
    /\ UNCHANGED <<pollVars, notesVars, pairVars, summaryVars, crudVars>>
    /\ faults' = Faults("set", o)
    /\ USER_DATA' = IF o = "ok" THEN call[i].theUser ELSE USER_DATA
    /\ user' = call[i].theUser
    /\ isLoading' = FALSE
    /\ Completed(i, call[i].theUser)
    /\ UNCHANGED <<nStarts, GUEST_ID, remoteUsers, error>>

\* a clearUser forgets what earlier initializeUser calls established
Forget(c) == [j \in Calls |-> [c[j] EXCEPT !.later = FALSE, !.sequel = FALSE]]

\* const clearUser = useCallback(async () => { ...   up to the first await
clearUser(i) ==
  /\ ~InFlight(i)
  /\ UNCHANGED <<pollVars, notesVars, pairVars, summaryVars, crudVars>>
  /\ nStarts < MaxStarts
  /\ nStarts' = nStarts + 1
  /\ call' = Forget(Started(i, [IdleCall EXCEPT !.op = "clearUser", !.pc = "clearGuestId"]))
  /\ firstUser' = NoUser
  /\ settledUser' = NoUser
  /\ lastClear' = "no"
  /\ UNCHANGED <<USER_DATA, GUEST_ID, faults, remoteUsers, user, isLoading, error>>

clearGuestIdReturns_kept(i) ==
  /\ call[i].pc = "clearGuestId"
  /\ UNCHANGED <<pollVars, notesVars, pairVars, summaryVars, crudVars>>
  /\ call' = Forget([call EXCEPT ![i].pc = "clearUser"])
  /\ firstUser' = NoUser
  /\ settledUser' = NoUser
  /\ UNCHANGED <<nStarts, USER_DATA, GUEST_ID, faults, remoteUsers, user, isLoading, error, lastClear>>

\* `await guestStorage.clearGuestId()` returns
clearGuestIdReturns(i) ==
  \E o \in StorageOutcomes :
    /\ call[i].pc = "clearGuestId"
    /\ UNCHANGED <<pollVars, notesVars, pairVars, summaryVars, crudVars>>
    /\ faults' = Faults("remove", o)
    /\ GUEST_ID' = IF o = "ok" THEN NULL ELSE GUEST_ID
    /\ call' = Forget([call EXCEPT ![i].pc = "clearUser"])
    /\ firstUser' = NoUser
    /\ settledUser' = NoUser
    /\ UNCHANGED lastClear
    /\ UNCHANGED <<nStarts, USER_DATA, remoteUsers, user, isLoading, error>>

\* `await userStorage.clearUser()` returns; setUser(null)
clearUserReturns(i) ==
  \E o \in StorageOutcomes :
    /\ call[i].pc = "clearUser"
    /\ UNCHANGED <<pollVars, notesVars, pairVars, summaryVars, crudVars>>
    /\ faults' = Faults("remove", o)
    /\ USER_DATA' = IF o = "ok" THEN NoUser ELSE USER_DATA
    /\ user' = NoUser
    /\ call' = Forget([call EXCEPT ![i].pc = "done"])
    /\ firstUser' = NoUser
    /\ settledUser' = NoUser
    /\ lastClear' = IF call[i].alone THEN "quiet" ELSE "overlapped"
    /\ UNCHANGED <<nStarts, GUEST_ID, remoteUsers, isLoading, error>>

(***************************************************************************)
(* notesCache (storage.ts) and useNotes.refresh (hooks).                   *)
(***************************************************************************)
\* the clock advances at most MaxTicks times in a run
MaxTicks == 2
\* refresh calls that overlap
MaxRefreshers == 2
\* refresh calls in one run of the app
MaxRefreshes == 3

\* notesCache.getNotes: 5 * 60 * 1000
FiveMinutes == 5 * 60 * 1000
\* the clock advances by a millisecond or by a millisecond less than the window
TickSteps == {1, FiveMinutes - 1}

Refreshers == 1..MaxRefreshers

\* the lists of notes the service returns
NoteLists ==
  {<<>>} \cup {<<n>> : n \in NoteIds} \cup {p \in NoteIds \X NoteIds : p[1] < p[2]}

NoCache == [absent |-> TRUE]
\* { notes, timestamp: Date.now() }
CacheBlob(ns, t) == [notes |-> ns, timestamp |-> t]

\* if (cached && Date.now() - cached.timestamp < 5 * 60 * 1000) return cached.notes; return [];
getNotes_inclusive(cached, t) ==
  IF cached # NoCache /\ t - cached.timestamp <= FiveMinutes THEN cached.notes ELSE <<>>
getNotes(cached, t) ==
  IF cached # NoCache /\ t - cached.timestamp < FiveMinutes THEN cached.notes ELSE <<>>

IdleRefresh ==
  [pc |-> "idle", fetchedNotes |-> <<>>, timestamp |-> NoNumber, failed |-> FALSE,
   nLists |-> 0, nReads |-> 0, nWrites |-> 0]

NoRead == [at |-> NoNumber, readable |-> FALSE, stored |-> NoCache, lastSet |-> NoCache,
           cachedNotes |-> <<>>]

\* the cache is empty or holds what a refresh of an earlier run wrote
InitNotesAt(s) ==
  /\ NOTES_CACHE = IF s = "cached" THEN CacheBlob(<<1>>, 0) ELSE NoCache
  /\ lastSet = NOTES_CACHE
  /\ now = 0
  /\ nTicks = 0
  /\ notes = <<>>
  /\ notesIsLoading = TRUE
  /\ notesError = NULL
  /\ refreshCall = [k \in Refreshers |-> IdleRefresh]
  /\ nRefreshes = 0
  /\ lastRead = NoRead

Refreshing(k) == refreshCall[k].pc \notin {"idle", "done"}

\* time passes
Tick ==
  \E d \in TickSteps :
    /\ nTicks < MaxTicks
    /\ nTicks' = nTicks + 1
    /\ now' = now + d
    /\ UNCHANGED <<pollVars, userVars, pairVars, summaryVars, crudVars>>
    /\ UNCHANGED <<NOTES_CACHE, notes, notesIsLoading, notesError, refreshCall, nRefreshes, lastSet, lastRead>>

\* const refresh = useCallback(async () => { ...   up to the first await
refresh(k) ==
  /\ ~Refreshing(k)
  /\ nRefreshes < MaxRefreshes
  /\ nRefreshes' = nRefreshes + 1
  /\ notesIsLoading' = TRUE
  /\ notesError' = NULL
  /\ refreshCall' = [refreshCall EXCEPT ![k] = [IdleRefresh EXCEPT !.pc = "list", !.nLists = 1]]
  /\ UNCHANGED <<pollVars, userVars, pairVars, summaryVars, crudVars>>
  /\ UNCHANGED <<NOTES_CACHE, now, nTicks, notes, lastSet, lastRead>>

\* `await api.notes.list({ user_id: userId })` returns; setNotes(fetchedNotes)
\* and the call of notesCache.setNotes, which takes Date.now()
listReturns(k) ==
  \E fetchedNotes \in NoteLists :
    /\ refreshCall[k].pc = "list"
    /\ notes' = fetchedNotes
    /\ refreshCall' = [refreshCall EXCEPT ![k].pc = "setNotes", ![k].fetchedNotes = fetchedNotes,
                                          ![k].timestamp = now, ![k].nWrites = @ + 1]
    /\ gone' = gone \ {fetchedNotes[j] : j \in 1..Len(fetchedNotes)}
    /\ UNCHANGED <<pollVars, userVars, pairVars, summaryVars, crudCallVars>>
    /\ UNCHANGED <<NOTES_CACHE, now, nTicks, notesIsLoading, notesError, nRefreshes, lastSet, lastRead>>

\* `await api.notes.list(...)` throws; setError and the call of notesCache.getNotes
listFails(k) ==
  \E e \in AxiosErrors :
    /\ refreshCall[k].pc = "list"
    /\ notesError' = responseInterceptor(e).detail
    /\ refreshCall' = [refreshCall EXCEPT ![k].pc = "getNotes", ![k].failed = TRUE,
                                          ![k].nReads = @ + 1]
    /\ UNCHANGED <<pollVars, userVars, pairVars, summaryVars, crudVars>>
    /\ UNCHANGED <<NOTES_CACHE, now, nTicks, notes, notesIsLoading, nRefreshes, lastSet, lastRead>>

\* `await notesCache.setNotes(fetchedNotes)` returns; the finally
cacheSetNotesReturns_keepFresh(k) ==
  \E o \in StorageOutcomes :
    LET blob == CacheBlob(refreshCall[k].fetchedNotes, refreshCall[k].timestamp)
        fresh == getNotes(NOTES_CACHE, now) # <<>> IN
    /\ refreshCall[k].pc = "setNotes"
    /\ faults' = Faults("set", o)
    /\ NOTES_CACHE' = IF o = "ok" /\ ~fresh THEN blob ELSE NOTES_CACHE
    /\ lastSet' = blob
    /\ notesIsLoading' = FALSE
    /\ refreshCall' = [refreshCall EXCEPT ![k].pc = "done", ![k].fetchedNotes = <<>>,
                                          ![k].timestamp = NoNumber]
    /\ UNCHANGED <<pollVars, identityVars, pairVars, summaryVars, crudVars>>
    /\ UNCHANGED <<now, nTicks, notes, notesError, nRefreshes, lastRead>>

cacheSetNotesReturns(k) ==
  \E o \in StorageOutcomes :
    LET blob == CacheBlob(refreshCall[k].fetchedNotes, refreshCall[k].timestamp) IN
    /\ refreshCall[k].pc = "setNotes"
    /\ faults' = Faults("set", o)
    /\ NOTES_CACHE' = IF o = "ok" THEN blob ELSE NOTES_CACHE
    /\ lastSet' = blob
    /\ notesIsLoading' = FALSE
    /\ refreshCall' = [refreshCall EXCEPT ![k].pc = "done", ![k].fetchedNotes = <<>>,
                                          ![k].timestamp = NoNumber]
    /\ UNCHANGED <<pollVars, identityVars, pairVars, summaryVars, crudVars>>
    /\ UNCHANGED <<now, nTicks, notes, notesError, nRefreshes, lastRead>>

cacheGetNotesReturns_emptied(k) ==
  \E o \in StorageOutcomes :
    LET cached == IF o = "ok" THEN NOTES_CACHE ELSE NoCache
        cachedNotes == getNotes(cached, now) IN
    /\ refreshCall[k].pc = "getNotes"
    /\ faults' = Faults("get", o)
    /\ notes' = cachedNotes
    /\ notesIsLoading' = FALSE
    /\ refreshCall' = [refreshCall EXCEPT ![k].pc = "done"]
    /\ lastRead' = [at |-> now, readable |-> (o = "ok"), stored |-> NOTES_CACHE,
                    lastSet |-> lastSet, cachedNotes |-> cachedNotes]
    /\ UNCHANGED <<pollVars, identityVars, pairVars, summaryVars, crudVars>>
    /\ UNCHANGED <<NOTES_CACHE, now, nTicks, notesError, nRefreshes, lastSet>>

\* `await notesCache.getNotes()` returns; if (cachedNotes.length > 0)
\* setNotes(cachedNotes); the finally
cacheGetNotesReturns(k) ==
  \E o \in StorageOutcomes :
    LET cached == IF o = "ok" THEN NOTES_CACHE ELSE NoCache
        cachedNotes == getNotes(cached, now) IN
    /\ refreshCall[k].pc = "getNotes"
    /\ faults' = Faults("get", o)
    /\ notes' = IF Len(cachedNotes) > 0 THEN cachedNotes ELSE notes
    /\ notesIsLoading' = FALSE
    /\ refreshCall' = [refreshCall EXCEPT ![k].pc = "done"]
    /\ lastRead' = [at |-> now, readable |-> (o = "ok"), stored |-> NOTES_CACHE,
                    lastSet |-> lastSet, cachedNotes |-> cachedNotes]
    /\ UNCHANGED <<pollVars, identityVars, pairVars, summaryVars, crudVars>>
    /\ UNCHANGED <<NOTES_CACHE, now, nTicks, notesError, nRefreshes, lastSet>>

NextNotes ==
  \/ Tick
  \/ \E k \in Refreshers :
       \/ refresh(k)
       \/ listReturns(k)
       \/ listFails(k)
       \/ cacheSetNotesReturns(k)
       \/ cacheGetNotesReturns(k)

NextUser ==
  \E i \in Calls :
    \/ initializeUser(i)
    \/ getUserReturns(i)
    \/ getGuestIdReturns(i)
    \/ getByGuestIdReturns(i)
    \/ getByGuestIdFails(i)
    \/ setUserExistingReturns(i)
    \/ createReturns(i)
    \/ createFails(i)
    \/ setGuestIdReturns(i)
    \/ setUserNewReturns(i)
    \/ clearUser(i)
    \/ clearGuestIdReturns(i)
    \/ clearUserReturns(i)

\* the two invocations of generateWithPolling that run interleaved (below)
(***************************************************************************)
(* useNotes.deleteNote and createNote, useNote.updateNote (hooks);         *)
(* notesCache.clearCache and storage.clear (storage.ts).                   *)
(***************************************************************************)
MaxDeletes == 1
MaxNoteCreates == 1
MaxUpdates == 1
MaxClears == 1

NoReturn == [kind |-> "none"]
Returned(v) == [kind |-> "returned", value |-> v]

errorText_ownMessage(err, fallback) == IF err.name = "ApiServiceError" THEN err.detail ELSE err.message[1]
\* err instanceof ApiServiceError ? err.detail : fallback
errorText(err, fallback) == IF err.name = "ApiServiceError" THEN err.detail ELSE fallback

\* the note the useNote hook was given
TheNoteId == 1
NoNote == [absent |-> TRUE]
Note(id, revision) == [id |-> id, revision |-> revision]

IdleCrud == [pc |-> "idle", noteId |-> NoNumber, returned |-> NoReturn]

InitCrud ==
  /\ deleteCall = IdleCrud
  /\ gone = {}
  /\ note = NoNote
  /\ noteError = NULL
  /\ updateCall = IdleCrud
  /\ nDeletes = 0
  /\ nNoteCreates = 0
  /\ nUpdates = 0
  /\ nClears = 0

\* prev.filter((n) => n.id !== noteId)
filter(prev, noteId_) == SelectSeq(prev, LAMBDA n : n # noteId_)

\* const deleteNote = useCallback(async (noteId) => { ...   up to the await
deleteNote(n) ==
  /\ deleteCall.pc # "delete"
  /\ nDeletes < MaxDeletes
  /\ nDeletes' = nDeletes + 1
  /\ deleteCall' = [pc |-> "delete", noteId |-> n, returned |-> NoReturn]
  /\ UNCHANGED <<pollVars, userVars, notesVars, pairVars, summaryVars>>
  /\ UNCHANGED <<gone, note, noteError, updateCall, nNoteCreates, nUpdates, nClears>>

notesDeleteReturns_cacheToo ==
  /\ deleteCall.pc = "delete"
  /\ notes' = filter(notes, deleteCall.noteId)
  /\ gone' = gone \cup {deleteCall.noteId}
  /\ deleteCall' = [deleteCall EXCEPT !.pc = "done", !.returned = Returned(TRUE)]
  /\ NOTES_CACHE' = CacheBlob(filter(notes, deleteCall.noteId), now)
  /\ UNCHANGED <<pollVars, userVars, pairVars, summaryVars>>
  /\ UNCHANGED <<now, nTicks, notesIsLoading, notesError, refreshCall, nRefreshes, lastSet, lastRead>>
  /\ UNCHANGED <<note, noteError, updateCall, nDeletes, nNoteCreates, nUpdates, nClears>>

\* `await api.notes.delete(noteId)` returns; setNotes(prev => prev.filter(...))
notesDeleteReturns ==
  /\ deleteCall.pc = "delete"
  /\ notes' = filter(notes, deleteCall.noteId)
  /\ gone' = gone \cup {deleteCall.noteId}
  /\ deleteCall' = [deleteCall EXCEPT !.pc = "done", !.returned = Returned(TRUE)]
  /\ UNCHANGED <<pollVars, userVars, pairVars, summaryVars>>
  /\ UNCHANGED <<NOTES_CACHE, now, nTicks, notesIsLoading, notesError, refreshCall, nRefreshes, lastSet, lastRead>>
  /\ UNCHANGED <<note, noteError, updateCall, nDeletes, nNoteCreates, nUpdates, nClears>>

\* the same await throws
notesDeleteFails ==
  \E e \in AxiosErrors :
    /\ deleteCall.pc = "delete"
    /\ notesError' = errorText(responseInterceptor(e), "Failed to delete note")
    /\ deleteCall' = [deleteCall EXCEPT !.pc = "done", !.returned = Returned(FALSE)]
    /\ UNCHANGED <<pollVars, userVars, pairVars, summaryVars>>
    /\ UNCHANGED <<NOTES_CACHE, now, nTicks, notes, notesIsLoading, refreshCall, nRefreshes, lastSet, lastRead>>
    /\ UNCHANGED <<gone, note, noteError, updateCall, nDeletes, nNoteCreates, nUpdates, nClears>>

\* const createNote = useCallback(async (data) => { ...   up to the await
createNote(k) ==
  /\ ~Refreshing(k)
  /\ nNoteCreates < MaxNoteCreates
  /\ nNoteCreates' = nNoteCreates + 1
  /\ refreshCall' = [refreshCall EXCEPT ![k] = [IdleRefresh EXCEPT !.pc = "create"]]
  /\ UNCHANGED <<pollVars, userVars, pairVars, summaryVars>>
  /\ UNCHANGED <<NOTES_CACHE, now, nTicks, notes, notesIsLoading, notesError, nRefreshes, lastSet, lastRead>>
  /\ UNCHANGED <<gone, deleteCall, note, noteError, updateCall, nDeletes, nUpdates, nClears>>

\* `await api.notes.create(data, userId)` returns and refresh() is called: it
\* runs up to its first await; createNote returns when that refresh ends
notesCreateReturns(k) ==
  /\ refreshCall[k].pc = "create"
  /\ nRefreshes < MaxRefreshes
  /\ nRefreshes' = nRefreshes + 1
  /\ notesIsLoading' = TRUE
  /\ notesError' = NULL
  /\ refreshCall' = [refreshCall EXCEPT ![k] = [IdleRefresh EXCEPT !.pc = "list", !.nLists = 1]]
  /\ UNCHANGED <<pollVars, userVars, pairVars, summaryVars, crudVars>>
  /\ UNCHANGED <<NOTES_CACHE, now, nTicks, notes, lastSet, lastRead>>

\* the same await throws
notesCreateFails(k) ==
  \E e \in AxiosErrors :
    /\ refreshCall[k].pc = "create"
    /\ notesError' = errorText(responseInterceptor(e), "Failed to create note")
    /\ refreshCall' = [refreshCall EXCEPT ![k].pc = "done"]
    /\ UNCHANGED <<pollVars, userVars, pairVars, summaryVars, crudVars>>
    /\ UNCHANGED <<NOTES_CACHE, now, nTicks, notes, notesIsLoading, nRefreshes, lastSet, lastRead>>

\* const updateNote = useCallback(async (data) => { ...   up to the await
updateNote ==
  /\ updateCall.pc # "update"
  /\ nUpdates < MaxUpdates
  /\ nUpdates' = nUpdates + 1
  /\ updateCall' = [pc |-> "update", noteId |-> TheNoteId, returned |-> NoReturn]
  /\ UNCHANGED <<pollVars, userVars, notesVars, pairVars, summaryVars>>
  /\ UNCHANGED <<gone, deleteCall, note, noteError, nDeletes, nNoteCreates, nClears>>

\* `await api.notes.update(noteId, data)` returns; setNote(updatedNote)
notesUpdateReturns ==
  /\ updateCall.pc = "update"
  /\ note' = Note(updateCall.noteId, nUpdates)
  /\ updateCall' = [updateCall EXCEPT !.pc = "done", !.returned = Returned(TRUE)]
  /\ UNCHANGED <<pollVars, userVars, notesVars, pairVars, summaryVars>>
  /\ UNCHANGED <<gone, deleteCall, noteError, nDeletes, nNoteCreates, nUpdates, nClears>>

\* the same await throws
notesUpdateFails ==
  \E e \in AxiosErrors :
    /\ updateCall.pc = "update"
    /\ noteError' = errorText(responseInterceptor(e), "Failed to update note")
    /\ updateCall' = [updateCall EXCEPT !.pc = "done", !.returned = Returned(FALSE)]
    /\ UNCHANGED <<pollVars, userVars, notesVars, pairVars, summaryVars>>
    /\ UNCHANGED <<gone, deleteCall, note, nDeletes, nNoteCreates, nUpdates, nClears>>

\* notesCache.clearCache: storage.remove(STORAGE_KEYS.NOTES_CACHE)
clearCache ==
  \E o \in StorageOutcomes :
    /\ nClears < MaxClears
    /\ nClears' = nClears + 1
    /\ faults' = Faults("remove", o)
    /\ NOTES_CACHE' = IF o = "ok" THEN NoCache ELSE NOTES_CACHE
    /\ lastSet' = IF o = "ok" THEN NoCache ELSE lastSet
    /\ UNCHANGED <<pollVars, identityVars, pairVars, summaryVars>>
    /\ UNCHANGED <<now, nTicks, notes, notesIsLoading, notesError, refreshCall, nRefreshes, lastRead>>
    /\ UNCHANGED <<gone, deleteCall, note, noteError, updateCall, nDeletes, nNoteCreates, nUpdates>>

\* storage.clear: AsyncStorage.multiRemove(Object.values(STORAGE_KEYS))
storageClear ==
  \E o \in StorageOutcomes :
    /\ nClears < MaxClears
    /\ nClears' = nClears + 1
    /\ faults' = Faults("remove", o)
    /\ NOTES_CACHE' = IF o = "ok" THEN NoCache ELSE NOTES_CACHE
    /\ lastSet' = IF o = "ok" THEN NoCache ELSE lastSet
    /\ USER_DATA' = IF o = "ok" THEN NoUser ELSE USER_DATA
    /\ GUEST_ID' = IF o = "ok" THEN NULL ELSE GUEST_ID
    /\ UNCHANGED <<pollVars, pairVars, summaryVars>>
    /\ UNCHANGED <<remoteUsers, user, isLoading, error, call, nStarts, firstUser, settledUser, lastClear>>
    /\ UNCHANGED <<now, nTicks, notes, notesIsLoading, notesError, refreshCall, nRefreshes, lastRead>>
    /\ UNCHANGED <<gone, deleteCall, note, noteError, updateCall, nDeletes, nNoteCreates, nUpdates>>

\* the listing hook with every operation made on it, within the freshness
\* window of what the cache holds: one caller of refresh and one of
\* createNote, whose refresh may overlap the other
Refresher == 1
Creator == 2
NextListing ==
  \/ refresh(Refresher)
  \/ \E k \in {Refresher, Creator} : listReturns(k)
  \/ \E k \in {Refresher, Creator} : listFails(k)
  \/ \E k \in {Refresher, Creator} : cacheSetNotesReturns(k)
  \/ \E k \in {Refresher, Creator} : cacheGetNotesReturns(k)
  \/ \E n \in NoteIds : deleteNote(n)
  \/ notesDeleteReturns
  \/ notesDeleteFails
  \/ createNote(Creator)
  \/ notesCreateReturns(Creator)
  \/ notesCreateFails(Creator)

(***************************************************************************)
(* useSummary(noteId): generateSummary and loadSummaries.                  *)
(* generateWithPolling runs inside generateSummary with the hook's         *)
(* callback; its steps are those of the invocation above, without the      *)
(* counters, and the loop may end in the timeout after any poll.           *)
(***************************************************************************)
MaxGenerators == 2
MaxGenerations == 3
MaxLoads == 1
Generators == 1..MaxGenerators

NoSummary == [absent |-> TRUE]

\* the noteId of the hook: undefined, 0 or a note
HookNoteIds == {NoNumber, 0, 1}

\* what GET /summaries/note/{noteId} may answer
StoredSummaries(n) ==
  { <<>>,
    <<polledSummary(n, FullPayload)>>,
    <<polledSummary(n, SparsePayload), polledSummary(n, FullPayload)>> }

\* the answers drawn inside the hook: one of each kind the code distinguishes
HookSubmitResponses ==
  {r \in SubmitResponses : r.status = "pending" /\ r.job_id \in {NULL, "job-1"}
                             /\ r.summary \in {NoPayload, FullPayload}}
HookStatusResponses ==
  {r \in StatusResponses : r.summary \in {NoPayload, SparsePayload} /\ r.error \in {UNDEFINED, "boom"}}
HookAxiosErrors == {e \in AxiosErrors : e.status \in {0, 404}}

IdleGeneration ==
  [pc |-> "idle", outcome |-> Pending, returned |-> NoReturn, alone |-> FALSE, nRequests |-> 0]

InitSummaryAt(n) ==
  /\ hookNoteId = n
  /\ summaries = <<>>
  /\ currentSummary = NoSummary
  /\ isGenerating = FALSE
  /\ progressMessage = Msg("")
  /\ summaryError = NULL
  /\ gen = [k \in Generators |-> IdleGeneration]
  /\ load = "idle"
  /\ nGenerations = 0
  /\ nLoads = 0

Generating(k) == gen[k].pc \notin {"idle", "done"}
NoOtherGenerating(k) == \A j \in Generators \ {k} : ~Generating(j)

\* (status, message) => { if (status === 'pending') ... else if ... }
hookCallback(st, message, shown) ==
  IF st = "pending" THEN Msg("Waiting in queue...")
  ELSE IF st = "processing"
    THEN (IF message \in {<<>>, Msg("")} THEN Msg("AI is generating summary...") ELSE message)
  ELSE IF st = "completed" THEN Msg("Summary complete!")
  ELSE shown

\* generateWithPolling settles inside call k (nRequests: 1 once the job is
\* submitted, 2 once a job-status request was answered)
SettleIn(k, o) ==
  gen' = [gen EXCEPT ![k].pc = "settled", ![k].outcome = o,
                     ![k].nRequests = IF gen[k].pc = "polling" THEN 2 ELSE @]

\* const generateSummary = useCallback(async (options?) => { ...   up to the
\* first await, which lies inside generateWithPolling after its first event
generateSummary(k) ==
  /\ ~Generating(k)
  /\ nGenerations < MaxGenerations
  /\ nGenerations' = nGenerations + 1
  /\ UNCHANGED <<pollVars, userVars, notesVars, pairVars, crudVars>>
  /\ IF FalsyNum(hookNoteId)
       THEN /\ gen' = [gen EXCEPT ![k] = [IdleGeneration EXCEPT !.pc = "done", !.returned = Returned(NoSummary),
                                                                !.alone = NoOtherGenerating(k)]]
            /\ UNCHANGED <<isGenerating, summaryError, progressMessage>>
       ELSE /\ isGenerating' = TRUE
            /\ summaryError' = NULL
            /\ progressMessage' = hookCallback("pending", Msg("Starting summary job..."),
                                                Msg("Starting summary generation..."))
            /\ gen' = [j \in Generators |->
                         IF j = k THEN [IdleGeneration EXCEPT !.pc = "submitting", !.alone = NoOtherGenerating(k),
                                                              !.nRequests = 1]
                         ELSE IF Generating(j) THEN [gen[j] EXCEPT !.alone = FALSE]
                         ELSE gen[j]]
  /\ UNCHANGED <<hookNoteId, summaries, currentSummary, load, nLoads>>

\* `await summariesApi.generateAsync(...)` returns inside call k
submitReturnsIn(k) ==
  \E r \in HookSubmitResponses :
    /\ gen[k].pc = "submitting"
    /\ UNCHANGED <<pollVars, userVars, notesVars, pairVars, crudVars>>
    /\ IF IsCacheHit(r)
         THEN /\ progressMessage' = hookCallback("completed", Msg("Using cached summary"), progressMessage)
              /\ SettleIn(k, Resolved(cachedSummary(hookNoteId, r.summary)))
         ELSE /\ progressMessage' = progressMessage
              /\ IF HasNoJobId(r)
                   THEN SettleIn(k, Rejected(JsError(Msg("No job ID returned"))))
                   ELSE gen' = [gen EXCEPT ![k].pc = "polling"]
    /\ UNCHANGED <<hookNoteId, summaries, currentSummary, isGenerating, summaryError, load, nGenerations, nLoads>>

\* the same await throws what the interceptor threw
submitFailsIn(k) ==
  \E e \in HookAxiosErrors :
    /\ gen[k].pc = "submitting"
    /\ UNCHANGED <<pollVars, userVars, notesVars, pairVars, crudVars>>
    /\ SettleIn(k, Rejected(responseInterceptor(e)))
    /\ UNCHANGED <<hookNoteId, summaries, currentSummary, isGenerating, progressMessage, summaryError,
                   load, nGenerations, nLoads>>

\* `await summariesApi.getJobStatus(job.job_id)` returns inside call k
statusReturnsIn(k) ==
  \E r \in HookStatusResponses :
    /\ gen[k].pc = "polling"
    /\ UNCHANGED <<pollVars, userVars, notesVars, pairVars, crudVars>>
    /\ progressMessage' = hookCallback(eventStatus(r), progressMsg(r), progressMessage)
    /\ IF IsCompleted(r) THEN SettleIn(k, Resolved(polledSummary(hookNoteId, r.summary)))
       ELSE IF IsFailed(r) THEN SettleIn(k, Rejected(JsError(Msg(failureMessage(r)))))
       ELSE gen' = [gen EXCEPT ![k].nRequests = 2]
    /\ UNCHANGED <<hookNoteId, summaries, currentSummary, isGenerating, summaryError, load, nGenerations, nLoads>>

\* the same await throws what the interceptor threw
statusFailsIn(k) ==
  \E e \in HookAxiosErrors :
    /\ gen[k].pc = "polling"
    /\ UNCHANGED <<pollVars, userVars, notesVars, pairVars, crudVars>>
    /\ SettleIn(k, Rejected(responseInterceptor(e)))
    /\ UNCHANGED <<hookNoteId, summaries, currentSummary, isGenerating, progressMessage, summaryError,
                   load, nGenerations, nLoads>>

\* the loop of call k is left after the last attempt
timesOutIn(k) ==
  /\ gen[k].pc = "polling"
  /\ gen[k].nRequests = 2
  /\ UNCHANGED <<pollVars, userVars, notesVars, pairVars, crudVars>>
  /\ SettleIn(k, Rejected(JsError(Msg("Summary generation timed out"))))
  /\ UNCHANGED <<hookNoteId, summaries, currentSummary, isGenerating, progressMessage, summaryError,
                 load, nGenerations, nLoads>>

prepend_replacing(summary, prev) == <<summary>>
\* (prev: Summary[]) => [summary, ...prev]
prepend(summary, prev) == <<summary>> \o prev

generateSummaryReturns_rethrown(k) ==
  /\ gen[k].pc = "settled"
  /\ UNCHANGED <<pollVars, userVars, notesVars, pairVars, crudVars>>
  /\ IF gen[k].outcome.kind = "resolved"
       THEN /\ currentSummary' = gen[k].outcome.value
            /\ summaries' = prepend(gen[k].outcome.value, summaries)
            /\ progressMessage' = Msg("")
            /\ summaryError' = summaryError
            /\ gen' = [gen EXCEPT ![k].pc = "done", ![k].returned = Returned(gen[k].outcome.value)]
       ELSE /\ summaryError' = errorText(gen[k].outcome.error, "Failed to generate summary")
            /\ progressMessage' = Msg("")
            /\ gen' = [gen EXCEPT ![k].pc = "done", ![k].returned = gen[k].outcome]
            /\ UNCHANGED <<currentSummary, summaries>>
  /\ isGenerating' = FALSE
  /\ UNCHANGED <<hookNoteId, load, nGenerations, nLoads>>

\* the await of generateWithPolling in call k resumes: the rest of the try,
\* or the catch, then the finally
generateSummaryReturns(k) ==
  /\ gen[k].pc = "settled"
  /\ UNCHANGED <<pollVars, userVars, notesVars, pairVars, crudVars>>
  /\ IF gen[k].outcome.kind = "resolved"
       THEN /\ currentSummary' = gen[k].outcome.value
            /\ summaries' = prepend(gen[k].outcome.value, summaries)
            /\ progressMessage' = Msg("")
            /\ summaryError' = summaryError
            /\ gen' = [gen EXCEPT ![k].pc = "done", ![k].returned = Returned(gen[k].outcome.value)]
       ELSE /\ summaryError' = errorText(gen[k].outcome.error, "Failed to generate summary")
            /\ progressMessage' = Msg("")
            /\ gen' = [gen EXCEPT ![k].pc = "done", ![k].returned = Returned(NoSummary)]
            /\ UNCHANGED <<currentSummary, summaries>>
  /\ isGenerating' = FALSE
  /\ UNCHANGED <<hookNoteId, load, nGenerations, nLoads>>

\* const loadSummaries = useCallback(async () => { ...   up to the await
loadSummaries ==
  /\ load # "fetching"
  /\ nLoads < MaxLoads
  /\ nLoads' = nLoads + 1
  /\ UNCHANGED <<pollVars, userVars, notesVars, pairVars, crudVars>>
  /\ load' = IF FalsyNum(hookNoteId) THEN "done" ELSE "fetching"
  /\ UNCHANGED <<hookNoteId, summaries, currentSummary, isGenerating, progressMessage, summaryError,
                 gen, nGenerations>>

\* `await api.summaries.getForNote(noteId)` returns
getForNoteReturns ==
  \E fetchedSummaries \in StoredSummaries(hookNoteId) :
    /\ load = "fetching"
    /\ UNCHANGED <<pollVars, userVars, notesVars, pairVars, crudVars>>
    /\ summaries' = fetchedSummaries
    /\ currentSummary' = IF Len(fetchedSummaries) > 0 THEN fetchedSummaries[1] ELSE currentSummary
    /\ load' = "done"
    /\ UNCHANGED <<hookNoteId, isGenerating, progressMessage, summaryError, gen, nGenerations, nLoads>>

\* the same await throws
getForNoteFails ==
  \E e \in HookAxiosErrors :
    /\ load = "fetching"
    /\ UNCHANGED <<pollVars, userVars, notesVars, pairVars, crudVars>>
    /\ summaryError' = errorText(responseInterceptor(e), "Failed to fetch summaries")
    /\ load' = "done"
    /\ UNCHANGED <<hookNoteId, summaries, currentSummary, isGenerating, progressMessage, gen,
                   nGenerations, nLoads>>

NextSummary ==
  \/ \E k \in Generators : generateSummary(k)
  \/ \E k \in Generators : submitReturnsIn(k)
  \/ \E k \in Generators : submitFailsIn(k)
  \/ \E k \in Generators : statusReturnsIn(k)
  \/ \E k \in Generators : statusFailsIn(k)
  \/ \E k \in Generators : timesOutIn(k)
  \/ \E k \in Generators : generateSummaryReturns(k)
  \/ loadSummaries
  \/ getForNoteReturns
  \/ getForNoteFails

Invocations == {1, 2}

IdleInvocation ==
  [pc |-> "idle", job_id |-> NULL, queried |-> NULL, outcome |-> Pending,
   nSubmits |-> 0, nWaits |-> 0, nPolls |-> 0, nEvents |-> 0, lastEvent |-> "none",
   own |-> 0, last |-> "none"]

InitPair ==
  /\ inv = [i \in Invocations |-> IdleInvocation]
  /\ attemptCell = [i \in Invocations |-> 0]

\* no summary is being generated while the identity is bootstrapped
InitHook ==
  /\ InitPoll /\ InitUserAt("fresh") /\ InitNotesAt("empty") /\ InitPair /\ InitCrud
  /\ \E n \in HookNoteIds : InitSummaryAt(n)

SpecSummary == InitHook /\ [][NextSummary]_vars

InitListing ==
  /\ InitPoll /\ InitUserAt("fresh") /\ InitPair /\ InitSummaryAt(1) /\ InitCrud
  /\ \E s \in {"empty", "cached"} : InitNotesAt(s)

SpecListing == InitListing /\ [][NextListing]_vars

InitBootstrap == InitPoll /\ InitUser /\ InitNotesAt("empty") /\ InitPair /\ InitSummaryAt(1) /\ InitCrud

SpecUser == InitBootstrap /\ [][NextUser]_vars

\* no summary is being generated and the identity is not touched while the
\* list of notes is refreshed
InitNotes ==
  InitPoll /\ InitUserAt("fresh") /\ InitPair /\ InitSummaryAt(1) /\ InitCrud
  /\ \E s \in {"empty", "cached"} : InitNotesAt(s)

SpecNotes == InitNotes /\ [][NextNotes]_vars

(***************************************************************************)
(* The specifications of generateWithPolling.                              *)
(***************************************************************************)
Init == InitPoll /\ InitUserAt("fresh") /\ InitNotesAt("empty") /\ InitPair /\ InitSummaryAt(1) /\ InitCrud

\* the callbacks the application passes never throw
Next ==
  \/ generateWithPolling({"none", "ok"})
  \/ generateAsyncReturns
  \/ generateAsyncFails
  \/ timerFires
  \/ getJobStatusReturns(StatusResponses)
  \/ getJobStatusFails(AxiosErrors)

Spec == Init /\ [][Next]_vars

\* one job-status answer for each way the loop body ends (next attempt, next
\* attempt after a completed answer without payload, return, throw) and one
\* failure of the call
LiveStatusResponses ==
  {r \in StatusResponses :
     r.status # "processing" /\ r.summary \in {NoPayload, FullPayload} /\ r.error = UNDEFINED}
LiveAxiosErrors == {e \in AxiosErrors : ~e.response}

NextLive ==
  \/ generateWithPolling({"none", "ok"})
  \/ generateAsyncReturns
  \/ generateAsyncFails
  \/ timerFires
  \/ getJobStatusReturns(LiveStatusResponses)
  \/ getJobStatusFails(LiveAxiosErrors)

\* every network call is answered and every timer fires
SpecLive ==
  /\ Init
  /\ [][NextLive]_vars
  /\ WF_vars(generateAsyncReturns \/ generateAsyncFails)
  /\ WF_vars(timerFires)
  /\ WF_vars(getJobStatusReturns(LiveStatusResponses) \/ getJobStatusFails(LiveAxiosErrors))

(***************************************************************************)
(* Two invocations of generateWithPolling, for the notes 1 and 2, whose    *)
(* steps interleave.  Each invocation is the function body of              *)
(* part_000:142-185 with its own `job` and its own `attempt`; the service  *)
(* gives each submitted job its own id.                                    *)
(***************************************************************************)
\* for (let attempt = 0; ...): the counter of an invocation is its own
counterOf_shared(i) == 1
counterOf(i) == i

JobIdOf(i) == "job-" \o ToString(i)

\* what POST .../async may answer to invocation i
PairSubmitResponses(i) ==
  { AsyncJobResponse(JobIdOf(i), "pending", 0, FALSE, NoPayload, UNDEFINED),
    AsyncJobResponse(JobIdOf(i), "completed", 0, TRUE, FullPayload, UNDEFINED),
    AsyncJobResponse(NULL, "pending", 0, FALSE, NoPayload, UNDEFINED) }

\* what GET .../jobs/{jobId} may answer
PairStatusResponses(jobId) ==
  { AsyncJobResponse(jobId, "pending", 0, FALSE, NoPayload, UNDEFINED),
    AsyncJobResponse(jobId, "completed", 1000, FALSE, FullPayload, UNDEFINED),
    AsyncJobResponse(jobId, "failed", 0, FALSE, NoPayload, "boom") }

\* invocation record `c` after the loop head was evaluated with counter `a`
LoopHeadAt(c, a) ==
  IF LoopCondition(a)
    THEN [c EXCEPT !.pc = "waiting", !.nWaits = @ + 1]
    ELSE [c EXCEPT !.pc = "done", !.outcome = Rejected(JsError(Msg("Summary generation timed out")))]

\* generateWithPolling(i, options, onProgress) up to its first await
generateWithPollingAt(i) ==
  /\ inv[i].pc = "idle"
  /\ inv' = [inv EXCEPT ![i] = [@ EXCEPT !.pc = "submitting", !.nSubmits = 1,
                                          !.nEvents = 1, !.lastEvent = "pending"]]
  /\ UNCHANGED attemptCell
  /\ UNCHANGED <<pollVars, userVars, notesVars, summaryVars, crudVars>>

\* `await summariesApi.generateAsync(...)` returns a response
generateAsyncReturnsAt(i) ==
  \E r \in PairSubmitResponses(i) :
    /\ inv[i].pc = "submitting"
    /\ IF IsCacheHit(r)
         THEN /\ inv' = [inv EXCEPT ![i] = [@ EXCEPT !.pc = "done", !.job_id = r.job_id,
                                                  !.nEvents = @ + 1, !.lastEvent = "completed",
                                                  !.last = "cached",
                                                  !.outcome = Resolved(cachedSummary(i, r.summary))]]
              /\ UNCHANGED attemptCell
         ELSE IF HasNoJobId(r)
           THEN /\ inv' = [inv EXCEPT ![i] = [@ EXCEPT !.pc = "done", !.job_id = r.job_id,
                                                    !.last = "no job id",
                                                    !.outcome = Rejected(JsError(Msg("No job ID returned")))]]
                /\ UNCHANGED attemptCell
           ELSE /\ attemptCell' = [attemptCell EXCEPT ![counterOf(i)] = 0]
                /\ inv' = [inv EXCEPT ![i] = LoopHeadAt([@ EXCEPT !.job_id = r.job_id], 0)]
    /\ UNCHANGED <<pollVars, userVars, notesVars, summaryVars, crudVars>>

\* `await summariesApi.generateAsync(...)` throws what the interceptor threw
generateAsyncFailsAt(i) ==
  \E e \in LiveAxiosErrors :
    /\ inv[i].pc = "submitting"
    /\ inv' = [inv EXCEPT ![i] = [@ EXCEPT !.pc = "done", !.last = "error",
                                          !.outcome = Rejected(responseInterceptor(e))]]
    /\ UNCHANGED attemptCell
    /\ UNCHANGED <<pollVars, userVars, notesVars, summaryVars, crudVars>>

\* the poll-interval timer fires and getJobStatus(job.job_id) is issued
timerFiresAt(i) ==
  /\ inv[i].pc = "waiting"
  /\ inv' = [inv EXCEPT ![i] = [@ EXCEPT !.pc = "querying", !.nPolls = @ + 1,
                                          !.queried = inv[i].job_id]]
  /\ UNCHANGED attemptCell
  /\ UNCHANGED <<pollVars, userVars, notesVars, summaryVars, crudVars>>

\* `await summariesApi.getJobStatus(job.job_id)` returns a response: the rest
\* of the loop body, and the loop head after it
getJobStatusReturnsAt(i) ==
  \E r \in PairStatusResponses(inv[i].queried) :
    LET c == [inv[i] EXCEPT !.nEvents = @ + 1, !.lastEvent = eventStatus(r)]
        a == attemptCell[counterOf(i)] + 1 IN
    /\ inv[i].pc = "querying"
    /\ IF IsCompleted(r)
         THEN /\ inv' = [inv EXCEPT ![i] = [c EXCEPT !.pc = "done", !.last = "completed",
                                                  !.outcome = Resolved(polledSummary(i, r.summary))]]
              /\ UNCHANGED attemptCell
         ELSE IF IsFailed(r)
           THEN /\ inv' = [inv EXCEPT ![i] = [c EXCEPT !.pc = "done", !.last = "failed",
                                                    !.outcome = Rejected(JsError(Msg(failureMessage(r))))]]
                /\ UNCHANGED attemptCell
           ELSE /\ attemptCell' = [attemptCell EXCEPT ![counterOf(i)] = a]
                /\ inv' = [inv EXCEPT ![i] = LoopHeadAt([c EXCEPT !.own = @ + 1], a)]
    /\ UNCHANGED <<pollVars, userVars, notesVars, summaryVars, crudVars>>

\* `await summariesApi.getJobStatus(job.job_id)` throws what the interceptor threw
getJobStatusFailsAt(i) ==
  \E e \in LiveAxiosErrors :
    /\ inv[i].pc = "querying"
    /\ inv' = [inv EXCEPT ![i] = [@ EXCEPT !.pc = "done", !.last = "error",
                                          !.outcome = Rejected(responseInterceptor(e))]]
    /\ UNCHANGED attemptCell
    /\ UNCHANGED <<pollVars, userVars, notesVars, summaryVars, crudVars>>

NextPair ==
  \E i \in Invocations :
    \/ generateWithPollingAt(i)
    \/ generateAsyncReturnsAt(i)
    \/ generateAsyncFailsAt(i)
    \/ timerFiresAt(i)
    \/ getJobStatusReturnsAt(i)
    \/ getJobStatusFailsAt(i)

InitInterleaved == InitPoll /\ InitUserAt("fresh") /\ InitNotesAt("empty") /\ InitPair /\ InitSummaryAt(1) /\ InitCrud

SpecPair == InitInterleaved /\ [][NextPair]_vars

\* a caller is free to pass a callback that throws
(***************************************************************************)
(* The operations of the app on one installation: the hooks, of which one  *)
(* is in use in a run, and the calls made on the storage at any moment.    *)
(***************************************************************************)
PollUnused == pc = "idle"
UserUnused == nStarts = 0
ListingUnused == nRefreshes = 0 /\ nDeletes = 0 /\ nNoteCreates = 0
NoteUnused == nUpdates = 0
SummaryUnused == nGenerations = 0 /\ nLoads = 0

NextNote ==
  \/ updateNote
  \/ notesUpdateReturns
  \/ notesUpdateFails

NextApp ==
  \/ UserUnused /\ ListingUnused /\ NoteUnused /\ SummaryUnused /\ NextLive
  \/ PollUnused /\ ListingUnused /\ NoteUnused /\ SummaryUnused /\ NextUser
  \/ PollUnused /\ UserUnused /\ NoteUnused /\ SummaryUnused /\ NextListing
  \/ PollUnused /\ UserUnused /\ ListingUnused /\ SummaryUnused /\ NextNote
  \/ PollUnused /\ UserUnused /\ ListingUnused /\ NoteUnused /\ NextSummary
  \/ clearCache
  \/ storageClear

InitApp ==
  /\ InitPoll /\ InitUserAt("token") /\ InitNotesAt("cached") /\ InitPair /\ InitSummaryAt(1) /\ InitCrud

SpecApp == InitApp /\ [][NextApp]_vars

NextRaising ==
  \/ generateWithPolling({"none", "ok", "raises"})
  \/ generateAsyncReturns
  \/ generateAsyncFails
  \/ timerFires
  \/ getJobStatusReturns(StatusResponses)
  \/ getJobStatusFails(AxiosErrors)

SpecRaising == Init /\ [][NextRaising]_vars

(***************************************************************************)
(* Properties of generateWithPolling.                                      *)
(***************************************************************************)
TimedOut == Rejected(JsError(Msg("Summary generation timed out")))
NoJobId == Rejected(JsError(Msg("No job ID returned")))

Submitted == job # NoResponse
\* the submit response says cached = true and carries a summary payload
CacheHitResponse == Submitted /\ job.cached /\ job.summary # NoPayload
\* the statuses of the logged progress events, in order
EventStatuses == [k \in 1..Len(events) |-> events[k].status]
\* the summary payload a resolved invocation was built from
SourcePayload == IF status # NoResponse THEN status.summary ELSE job.summary
OnCachePath == status = NoResponse

\* C1: whenever the submit response has cached = true and a summary payload,
\* the invocation has resolved, without any getJobStatus call and without any
\* polling wait, whatever job_id and status the response carries.
C1_CacheHitShortCircuit ==
  CacheHitResponse =>
    /\ pc = "done"
    /\ outcome.kind = "resolved"
    /\ nPolls = 0
    /\ nWaits = 0

\* a cache hit whose response carries a job id and the status pending resolved
C1_Witness ==
  /\ CacheHitResponse
  /\ job.job_id = "job-1"
  /\ job.status = "pending"
  /\ pc = "done"
  /\ outcome.kind = "resolved"

\* C2: after a non-cached submit that returned a job id, an invocation whose
\* job-status responses were all pending or processing and that has ended has
\* failed with "Summary generation timed out" after exactly 180 getJobStatus
\* calls; no invocation makes more than 180, and none times out with fewer.
C2_TimeoutBound ==
  /\ nPolls <= 180
  /\ outcome = TimedOut => nPolls = 180
  /\ ( /\ pc = "done"
       /\ Submitted /\ ~CacheHitResponse /\ ~FalsyStr(job.job_id)
       /\ netError = NoError
       /\ seen \subseteq {"pending", "processing"} )
     => (outcome = TimedOut /\ nPolls = 180)
  /\ ( /\ pc # "done"
       /\ Submitted
       /\ seen \subseteq {"pending", "processing"} )
     => nPolls <= 180 /\ attempt < 180

\* an invocation that only ever saw pending and processing timed out
C2_Witness ==
  /\ pc = "done"
  /\ outcome = TimedOut
  /\ seen = {"pending", "processing"}
  /\ nPolls = 180

\* C3 as claimed: the job-status sequence pending, processing, processing,
\* completed-with-summary gives exactly 4 onProgress calls in total, with the
\* statuses pending, processing, processing, completed.
C3_FourEvents ==
  ( /\ pc = "done"
    /\ onProgress # "none"
    /\ ~CacheHitResponse
    /\ nPolls = 4
    /\ responses = <<"pending", "processing", "processing", "completed">> )
  => /\ nEvents = 4
     /\ EventStatuses = <<"pending", "processing", "processing", "completed">>
     /\ outcome.kind = "resolved"

\* C3 amended: that sequence gives exactly 5 onProgress calls: the pending
\* event that precedes the submit, then pending, processing, processing,
\* completed in that order; the invocation then resolves.
C3_FiveEvents ==
  ( /\ pc = "done"
    /\ onProgress # "none"
    /\ ~CacheHitResponse
    /\ nPolls = 4
    /\ responses = <<"pending", "processing", "processing", "completed">> )
  => /\ nEvents = 5
     /\ EventStatuses = <<"pending", "pending", "processing", "processing", "completed">>
     /\ events[1].message = Msg("Starting summary job...")
     /\ outcome.kind = "resolved"

C3_Witness ==
  /\ pc = "done"
  /\ onProgress = "ok"
  /\ nPolls = 4
  /\ responses = <<"pending", "processing", "processing", "completed">>
  /\ nEvents = 5
  /\ outcome.kind = "resolved"

\* C4: a job-status response with status failed ends the invocation at once:
\* it is rejected with the response's error text, or with "Summary generation
\* failed" when the error is absent or empty, and the failed response is the
\* answer to the last getJobStatus call made.
C4_FailurePropagation ==
  "failed" \in seen =>
    /\ pc = "done"
    /\ status # NoResponse
    /\ status.status = "failed"
    /\ outcome = Rejected(JsError(Msg(IF status.error \in {UNDEFINED, ""}
                                         THEN "Summary generation failed"
                                         ELSE status.error)))
    /\ nPolls = attempt + 1

\* a job failed without an error text, after some polling
C4_Witness ==
  /\ pc = "done"
  /\ status # NoResponse
  /\ status.status = "failed"
  /\ status.error = UNDEFINED
  /\ nPolls = 3
  /\ outcome = Rejected(JsError(Msg("Summary generation failed")))

\* C5: a submit response that is not a cache hit and carries no job id makes
\* the invocation fail at once with "No job ID returned", without any wait
\* and without any getJobStatus call.
C5_NoJobId ==
  (Submitted /\ ~CacheHitResponse /\ job.job_id \in {NULL, ""}) =>
    /\ pc = "done"
    /\ outcome = NoJobId
    /\ nWaits = 0
    /\ nPolls = 0

\* cached = true without a summary and with an empty job id
C5_Witness ==
  /\ Submitted
  /\ job.cached
  /\ job.summary = NoPayload
  /\ job.job_id = ""
  /\ outcome = NoJobId

\* C6: when the submit call or a job-status call throws an ApiServiceError,
\* the invocation is rejected with that very error, and it has ended: no
\* network call and no wait follows.
C6_NoRetry ==
  /\ [](netError # NoError =>
          /\ netError.name = "ApiServiceError"
          /\ pc = "done"
          /\ outcome = Rejected(netError))
  /\ [][pc = "done" => (nSubmits' = nSubmits /\ nPolls' = nPolls /\ nWaits' = nWaits)]_vars

\* a job-status call failed without a response, after some polling
C6_Witness ==
  /\ netError # NoError
  /\ netError.status = 500
  /\ nPolls = 2
  /\ pc = "done"
  /\ outcome = Rejected(netError)

\* C7: an error raised inside onProgress does not end the invocation: no
\* invocation is ever rejected with what the callback threw.
C7_CallbackIsolation ==
  pc = "done" => outcome # Rejected(CallbackError)

\* C8: the result of a resolved invocation has generation_time_ms,
\* token_count and compression_ratio as numbers, 0 whenever the payload it
\* was built from omits them, on the cache-hit path and on the polling path.
C8_NumericDefaults ==
  outcome.kind = "resolved" =>
    /\ outcome.value.generation_time_ms \in Nat
    /\ outcome.value.token_count \in Nat
    /\ outcome.value.compression_ratio \in Nat
    /\ SourcePayload.generation_time_ms = NoNumber => outcome.value.generation_time_ms = 0
    /\ SourcePayload.token_count = NoNumber => outcome.value.token_count = 0
    /\ SourcePayload.compression_ratio = NoNumber => outcome.value.compression_ratio = 0

\* the polling path resolved from a payload that omits all three
C8_Witness ==
  /\ outcome.kind = "resolved"
  /\ ~OnCachePath
  /\ SourcePayload = SparsePayload
  /\ outcome.value.token_count = 0

\* C9: when the payload omits ai_model the result's ai_model is "cached" on
\* the cache-hit path and "unknown" on the polling path; an omitted
\* ai_provider becomes "unknown" on both; note_id is the noteId argument.
C9_PathDefaults ==
  outcome.kind = "resolved" =>
    /\ outcome.value.note_id = noteId
    /\ SourcePayload.ai_model = UNDEFINED =>
         /\ outcome.value.ai_model = "cached" <=> OnCachePath
         /\ ~OnCachePath => outcome.value.ai_model = "unknown"
    /\ SourcePayload.ai_provider = UNDEFINED => outcome.value.ai_provider = "unknown"

\* the cache-hit path resolved from a payload without ai_model, for note 2
C9_Witness ==
  /\ outcome.kind = "resolved"
  /\ OnCachePath
  /\ SourcePayload.ai_model = UNDEFINED
  /\ outcome.value.ai_model = "cached"
  /\ noteId = 2

(***************************************************************************)
(* Properties of useUser.                                                  *)
(***************************************************************************)
NoFault(kinds) == \A k \in 1..Len(faults) : faults[k] \notin kinds

DoneInitializing(i) == call[i].op = "initializeUser" /\ call[i].pc = "done"

LookupFailsStep(i) == call[i].pc = "getByGuestId" /\ call'[i].pc # "getByGuestId" /\ call'[i].theUser = NoUser
\* call i, whose lookup had failed, takes its last step after a successful creation
FallbackCompletes(i) == call[i].pc = "setUserNew" /\ call'[i].pc = "done" /\ call[i].nLookups = 1

CreateFailsStep(i) == call[i].pc = "create" /\ call'[i].pc = "done"
\* call i takes a step that leaves it before the answer to its creation request
BeforeCreationStep(i) ==
  /\ call[i].pc \in {"getUser", "getGuestId", "getByGuestId"}
  /\ call'[i].pc \in {"getGuestId", "getByGuestId", "create"}
  /\ call'[i].pc # call[i].pc

\* C12: the error state becomes non-null only when a creation request fails;
\* the call whose creation request fails ends (it resolves, isLoading is
\* false) with the error state non-null and the current user as it was, and
\* no step of it has written the persisted identity or the guest token.
C12_CreateFailureSurfaced ==
  /\ [][(error' # error /\ error' # NULL) => \E i \in Calls : CreateFailsStep(i)]_vars
  /\ [][\A i \in Calls :
          /\ CreateFailsStep(i) =>
               /\ error' # NULL
               /\ user' = user
               /\ isLoading' = FALSE
               /\ ~InFlight(i)'
               /\ USER_DATA' = USER_DATA /\ GUEST_ID' = GUEST_ID
          /\ BeforeCreationStep(i) =>
               /\ USER_DATA' = USER_DATA /\ GUEST_ID' = GUEST_ID]_vars

\* a bootstrap that found a stale guest token and failed both to look it up
\* and to create a guest
C12_Witness ==
  \E i \in Calls :
    /\ DoneInitializing(i)
    /\ call[i].alone
    /\ call[i].nLookups = 1
    /\ call[i].nCreates = 1
    /\ call[i].yielded = NoUser
    /\ error # NULL
    /\ user = NoUser
    /\ USER_DATA = NoUser
    /\ GUEST_ID = GuestToken(0)
    /\ ~isLoading

\* call i takes the last step of a clearUser
ClearCompletes(i) == call[i].pc = "clearUser" /\ call'[i].pc = "done"
\* the requests a call has issued
NetworkCalls(i) == call[i].nLookups + call[i].nCreates

FreshNotes(written, readable, t) ==
  IF written # NoCache /\ readable /\ t - written.timestamp < FiveMinutes
    THEN written.notes
    ELSE <<>>

RemoteFirst(k) ==
  LET c == refreshCall[k] IN
  /\ c.pc # "idle" => c.nLists = 1
  /\ c.nReads = (IF c.failed THEN 1 ELSE 0)
  /\ c.nWrites = (IF c.pc \in {"setNotes", "done"} /\ ~c.failed THEN 1 ELSE 0)
  /\ c.pc = "setNotes" => c.timestamp <= now

\* refresh call k takes the step in which its list request succeeds
ListReturnsStep(k) == refreshCall[k].pc = "list" /\ refreshCall'[k].pc = "setNotes"
\* refresh call k takes the step in which its cache write returns
WriteReturnsStep(k) == refreshCall[k].pc = "setNotes" /\ refreshCall'[k].pc = "done"

C16_ErrorNormalization ==
  netError # NoError =>
    LET e == axiosError IN
    /\ netError.name = "ApiServiceError"
    /\ outcome = Rejected(netError)
    /\ netError.status = (IF e.response THEN e.status ELSE 500)
    /\ netError.detail = (IF e.response /\ e.bodyDetail # UNDEFINED THEN e.bodyDetail ELSE e.message)
    /\ netError.message = <<"API Error: ", netError.detail>>

\* C16 amended: the same, the detail being the detail of the response body
\* when it has a non-empty one.
C16_ErrorNormalizationNonEmptyDetail ==
  netError # NoError =>
    LET e == axiosError IN
    /\ netError.name = "ApiServiceError"
    /\ outcome = Rejected(netError)
    /\ netError.status = (IF e.response THEN e.status ELSE 500)
    /\ netError.detail = (IF e.response /\ e.bodyDetail \notin {UNDEFINED, ""} THEN e.bodyDetail ELSE e.message)
    /\ netError.message = <<"API Error: ", netError.detail>>

\* a job-status call answered 404 with a detail, after a poll that went through
C16_Witness ==
  /\ axiosError.response
  /\ axiosError.status = 404
  /\ nPolls = 2
  /\ outcome = Rejected(ApiServiceError(<<"API Error: ", "Job not found">>, 404, "Job not found"))

(***************************************************************************)
(* Properties of the progress events and of the polling loop.              *)
(***************************************************************************)
\* the status of a job-status response of a given kind
StatusOf(kind) == IF kind = "completed-no-summary" THEN "completed" ELSE kind
\* the job-status responses the invocation has received
Received ==
  nPolls - (IF pc = "querying" THEN 1 ELSE 0) - (IF netError # NoError /\ Submitted THEN 1 ELSE 0)
StartingEvent == [status |-> "pending", message |-> Msg("Starting summary job...")]

\* the first event is the pending one, there before the submit request is
\* answered; then one event per job-status response, in the order of the
\* responses (one event for a cache hit)
EventsFollowResponses ==
  onProgress # "none" =>
    /\ nSubmits >= 1 => (nEvents >= 1 /\ events[1] = StartingEvent)
    /\ pc = "submitting" => nEvents = 1
    /\ nEvents = (IF pc = "idle" THEN 0 ELSE 1) + (IF CacheHitResponse THEN 1 ELSE 0) + Received
    /\ \A k \in 1..Len(responses) :
         k + 1 <= Len(events) => events[k + 1].status = StatusOf(responses[k])
NoEventOnceSettled == pc = "done" => (nEvents' = nEvents /\ events' = events)

\* C17 as claimed: the first progress event is the pending one and precedes
\* the submit request, one event follows each job-status response in order,
\* a completed event is the last event (hence there is at most one), and no
\* event follows the end of the invocation.
C17_ProgressOrdering ==
  /\ []EventsFollowResponses
  /\ [](\A k \in 1..Len(events) : events[k].status = "completed" => k = nEvents)
  /\ [][NoEventOnceSettled]_vars

\* C17 amended: the same, except that a completed event is the last event
\* when the invocation resolves with it; a completed event that is not the
\* last one was emitted for a completed response without summary payload.
C17_ProgressOrderingResolvedLast ==
  /\ []EventsFollowResponses
  /\ [](\A k \in 1..Len(events) :
          (events[k].status = "completed" /\ k # nEvents) =>
             (k >= 2 /\ responses[k - 1] = "completed-no-summary"))
  /\ [][(outcome.kind # "resolved" /\ outcome'.kind = "resolved" /\ onProgress # "none") =>
          /\ nEvents' = nEvents + 1
          /\ Len(events') > Len(events) => events'[Len(events')].status = "completed"]_vars
  /\ [][NoEventOnceSettled]_vars

\* an invocation that resolved after a pending and a processing response
C17_Witness ==
  /\ outcome.kind = "resolved"
  /\ nPolls = 3
  /\ nEvents = 4
  /\ EventStatuses = <<"pending", "pending", "processing", "completed">>
  /\ responses = <<"pending", "processing", "completed">>

FailedJob == outcome.kind = "rejected" /\ outcome.error.name = "Error" /\ outcome # TimedOut /\ outcome # NoJobId
\* the invocation has ended in one of its terminal outcomes
Terminal ==
  /\ pc = "done"
  /\ \/ outcome.kind = "resolved"
     \/ FailedJob
     \/ outcome = TimedOut
     \/ outcome = NoJobId
     \/ outcome.kind = "rejected" /\ outcome.error.name = "ApiServiceError" /\ outcome.error = netError

\* C18: every invocation that has started ends; it does so in one terminal
\* outcome, having issued at most 180 job-status calls; once ended it stays
\* as it is and issues no network call; polling is left only by ending.
C18_Termination ==
  /\ (pc # "idle") ~> Terminal
  /\ [](nPolls <= maxAttempts)
  /\ [](pc = "done" <=> outcome # Pending)
  /\ [](pc = "done" => Terminal)
  /\ [][pc = "done" => (pc' = pc /\ outcome' = outcome /\ nSubmits' = nSubmits
                         /\ nWaits' = nWaits /\ nPolls' = nPolls)]_vars
  /\ [][(pc = "waiting" \/ pc = "querying") => (pc' \in {"waiting", "querying", "done"})]_vars

\* an invocation that ended by a failed job after 179 other responses
C18_Witness ==
  /\ pc = "done"
  /\ FailedJob
  /\ nPolls = maxAttempts
  /\ nSubmits = 1

\* C19: every job-status call is issued right after one poll-interval wait
\* that followed the previous call (or the submit response): waits and calls
\* alternate, starting with a wait, and a timed-out invocation has made 180
\* of each.
C19_WaitThenQuery ==
  /\ [](nWaits = nPolls + (IF pc = "waiting" THEN 1 ELSE 0))
  /\ [](nPolls >= 1 => nWaits >= 1)
  /\ [][nPolls' # nPolls =>
          (pc = "waiting" /\ nPolls' = nPolls + 1 /\ nWaits = nPolls + 1 /\ nWaits' = nWaits)]_vars
  /\ [][nWaits' # nWaits =>
          (pc' = "waiting" /\ nWaits' = nWaits + 1 /\ nWaits = nPolls /\ nPolls' = nPolls)]_vars
  /\ [](outcome = TimedOut => (nWaits = maxAttempts /\ nPolls = maxAttempts))

\* a timed-out invocation: 180 waits, 180 job-status calls
C19_Witness ==
  /\ outcome = TimedOut
  /\ nWaits = 180
  /\ nPolls = 180
  /\ Received = 180

(***************************************************************************)
(* Properties of two interleaved invocations.                              *)
(***************************************************************************)
\* invocation i ended on the answer, or on the failure, of a job-status call
EndedOnPoll(i) ==
  /\ inv[i].pc = "done"
  /\ inv[i].last \in {"completed", "failed"} \/ (inv[i].last = "error" /\ inv[i].job_id # NULL)

\* the outcome that the last answer to a request of invocation i gives it
OutcomeOf(i) ==
  CASE inv[i].last = "cached"    -> Resolved(cachedSummary(i, FullPayload))
    [] inv[i].last = "completed" -> Resolved(polledSummary(i, FullPayload))
    [] inv[i].last = "failed"    -> Rejected(JsError(Msg("boom")))
    [] inv[i].last = "no job id" -> NoJobId
    [] inv[i].last = "error"     -> Rejected(ApiServiceError(<<"API Error: ", "Network Error">>, 500, "Network Error"))
    [] OTHER -> IF inv[i].pc = "done" THEN TimedOut ELSE Pending

\* what invocation i has done and how it ended follow from the answers to
\* its own requests: `own` job-status answers that called for another
\* attempt, then possibly a last answer
OwnAnswersDecide(i) ==
  LET c == inv[i]
      polling == c.pc \in {"waiting", "querying"} IN
  /\ c.job_id \in {NULL, JobIdOf(i)}
  /\ attemptCell[i] = c.own
  /\ c.queried = (IF c.nPolls >= 1 THEN JobIdOf(i) ELSE NULL)
  /\ c.nPolls = c.own + (IF c.pc = "querying" \/ EndedOnPoll(i) THEN 1 ELSE 0)
  /\ c.nWaits = c.own + (IF polling \/ EndedOnPoll(i) THEN 1 ELSE 0)
  /\ c.nEvents = (IF c.pc = "idle" THEN 0 ELSE 1) + c.own
                   + (IF c.last \in {"cached", "completed", "failed"} THEN 1 ELSE 0)
  /\ c.outcome = OutcomeOf(i)
  /\ polling => c.own < maxAttempts
  /\ c.outcome = TimedOut <=> (c.own = maxAttempts /\ c.last = "none")

\* C20: in every interleaving of two invocations, what each invocation does
\* (its job id, its polls, its waits, its events, its outcome) is decided by
\* the answers to its own requests, and a step of one invocation leaves the
\* other as it is.
C20_Independence ==
  /\ [](\A i \in Invocations : OwnAnswersDecide(i))
  /\ [][\A i \in Invocations :
          inv'[i] # inv[i] => \A j \in Invocations \ {i} : inv'[j] = inv[j]]_vars

\* the two invocations have polled side by side; the first timed out after
\* its 180 polls, the second resolved at its third poll
C20_Witness ==
  /\ inv[1].outcome = TimedOut
  /\ inv[1].nPolls = maxAttempts
  /\ inv[2].outcome.kind = "resolved"
  /\ inv[2].outcome.value.note_id = 2
  /\ inv[2].nPolls = 3
  /\ inv[2].nEvents = 4
  /\ inv[2].queried = "job-2"

(***************************************************************************)
(* More properties of useUser.                                             *)
(***************************************************************************)
\* call i takes the step in which its lookup by guest token succeeds
LookupSucceedsStep(i) ==
  call[i].pc = "getByGuestId" /\ call'[i].pc # "getByGuestId" /\ call'[i].theUser # NoUser
\* call i, whose lookup had succeeded, takes its last step
LookupCompletes(i) == call[i].pc = "setUserExisting" /\ call'[i].pc = "done"

Created(i) ==
  /\ call[i].op = "initializeUser"
  /\ call[i].nCreates = 1
  /\ \/ call[i].pc \in {"setGuestId", "setUserNew"} /\ call[i].theUser \in remoteUsers
     \/ call[i].pc = "done" /\ call[i].yielded \in remoteUsers
CreatedUser(i) == IF call[i].pc = "done" THEN call[i].yielded ELSE call[i].theUser

\* C22: nothing holds back an initializeUser while another call is in
\* flight, and two initializeUser calls that both had a create-guest request
\* answered hold two distinct remote identities.
C22_DoubleRegistration ==
  /\ \A i \in Calls : (~InFlight(i) /\ nStarts < MaxStarts) => ENABLED initializeUser(i)
  /\ \A i, j \in Calls :
       (i # j /\ Created(i) /\ Created(j)) =>
         /\ CreatedUser(i) # CreatedUser(j)
         /\ CreatedUser(i).id # CreatedUser(j).id
         /\ {CreatedUser(i), CreatedUser(j)} \subseteq remoteUsers

\* two bootstraps, the only calls made, started on empty storage with no
\* storage failure, overlapped and registered one guest each
C22_Witness ==
  /\ nStarts = 2
  /\ faults = <<>>
  /\ error = NULL
  /\ \E i, j \in Calls :
       /\ i # j
       /\ call[i].yielded # call[j].yielded
       /\ \A k \in {i, j} :
            /\ DoneInitializing(k)
            /\ ~call[k].alone
            /\ call[k].afterClear = "no"
            /\ call[k].nLookups = 0
            /\ call[k].nCreates = 1
  /\ Cardinality(remoteUsers) = 2
  /\ \A u \in remoteUsers : u.id # 0 /\ u.guest_id = GuestToken(u.id)

\* no initializeUser or clearUser call is in flight
Quiescent == \A i \in Calls : ~InFlight(i)

\* C23: whenever no call is in flight and both a guest token and an identity
\* are persisted, the persisted guest token is the guest_id of the persisted
\* identity.
C23_TokenIdentityAgreement ==
  (Quiescent /\ GUEST_ID # NULL /\ USER_DATA # NoUser) => GUEST_ID = USER_DATA.guest_id

\* C23 for two concurrent bootstraps: the persisted guest token is the
\* guest_id of the persisted identity once both calls have ended, where no
\* storage failure occurred, every identity of the service carries its guest
\* token, and the only calls made were two initializeUser on empty storage.
C23_TokenIdentityAgreementOfTwoBootstraps ==
  (/\ Quiescent /\ GUEST_ID # NULL /\ USER_DATA # NoUser
   /\ faults = <<>>
   /\ nStarts = 2
   /\ \A u \in remoteUsers : u.id # 0 /\ u.guest_id = GuestToken(u.id)
   /\ \A i \in Calls : call[i].op = "initializeUser" => call[i].nLookups = 0)
  => GUEST_ID = USER_DATA.guest_id

(***************************************************************************)
(* More properties of generateWithPolling.                                 *)
(***************************************************************************)
\* every job-status answer so far said completed and carried no summary
OnlyCompletedWithoutPayload ==
  /\ Submitted /\ ~CacheHitResponse /\ ~FalsyStr(job.job_id)
  /\ netError = NoError
  /\ seen \subseteq {"completed-no-summary"}
\* the step in which such an answer arrives, while the log of answers has room
CompletedWithoutPayloadStep ==
  /\ pc = "querying"
  /\ Len(responses) < MaxLog - 1
  /\ responses' = Append(responses, "completed-no-summary")
\* the step in which a submit response with cached = true and no summary arrives
CachedWithoutSummaryStep ==
  pc = "submitting" /\ job' # NoResponse /\ job'.cached /\ job'.summary = NoPayload

\* C24: a job-status answer `completed` without a summary emits a completed
\* progress event and leaves the loop running; when every answer is such, the
\* invocation times out after 180 polls and 180 completed events (after the
\* one starting event); a submit response with cached = true and no summary
\* emits nothing and goes on to poll when it has a job id, and is rejected
\* with "No job ID returned" when it has none.
C24_CompletedWithoutPayload ==
  [][/\ CompletedWithoutPayloadStep =>
          /\ pc' = "waiting" /\ outcome' = Pending
          /\ attempt' = attempt + 1
          /\ onProgress # "none" =>
               /\ nEvents' = nEvents + 1
               /\ Len(events) < MaxLog =>
                    events' = Append(events, [status |-> "completed", message |-> Msg("completed")])
     /\ OnlyCompletedWithoutPayload' =>
          /\ nPolls' <= 180
          /\ attempt' \in {nPolls', nPolls' - 1}
          /\ onProgress' # "none" =>
               /\ nEvents' = 1 + attempt'
               /\ \A k \in 2..Len(events') : events'[k].status = "completed"
          /\ pc' = "done" <=> attempt' = 180
          /\ pc' = "done" => (outcome' = TimedOut /\ nPolls' = 180)
     /\ CachedWithoutSummaryStep =>
          /\ nEvents' = nEvents
          /\ IF FalsyStr(job'.job_id)
               THEN pc' = "done" /\ outcome' = NoJobId /\ nPolls' = 0
               ELSE pc' = "waiting" /\ outcome' = Pending /\ attempt' = 0]_vars

\* submitted with cached = true and no summary, then 180 answers `completed`
\* without a summary: timed out, having emitted 181 events
C24_Witness ==
  /\ pc = "done"
  /\ outcome = TimedOut
  /\ job.cached /\ job.summary = NoPayload
  /\ seen = {"completed-no-summary"}
  /\ nPolls = 180
  /\ onProgress # "none"
  /\ nEvents = 181
  /\ events[1].status = "pending"
  /\ \A k \in 2..Len(events) : events[k] = [status |-> "completed", message |-> Msg("completed")]

(***************************************************************************)
(* Properties of useSummary.                                               *)
(***************************************************************************)
\* the step in which call k of generateSummary resumes after generateWithPolling
GenerationEnds(k) == gen[k].pc = "settled" /\ gen'[k].pc = "done"
GenerationSucceeds(k) == GenerationEnds(k) /\ gen[k].outcome.kind = "resolved"
GenerationFails(k) == GenerationEnds(k) /\ gen[k].outcome.kind = "rejected"

\* C25: when generateSummary succeeds, summaries becomes the new result
\* followed by every result held before, in the same order, one longer than
\* before, and currentSummary becomes the new result; when it fails,
\* summaries and currentSummary are unchanged.
C25_AppendOnlyHistory ==
  [][\A k \in Generators :
       /\ GenerationSucceeds(k) =>
            /\ Len(summaries') = Len(summaries) + 1
            /\ summaries'[1] = gen[k].outcome.value
            /\ \A j \in 1..Len(summaries) : summaries'[j + 1] = summaries[j]
            /\ currentSummary' = gen[k].outcome.value
            /\ gen'[k].returned = Returned(gen[k].outcome.value)
       /\ GenerationFails(k) =>
            /\ summaries' = summaries
            /\ currentSummary' = currentSummary]_vars

\* a third result was put in front of two held before, which differ from it
C25_Witness ==
  \E k \in Generators :
    /\ gen[k].pc = "done"
    /\ gen[k].returned.kind = "returned"
    /\ gen[k].returned.value # NoSummary
    /\ Len(summaries) = 3
    /\ summaries[1] = gen[k].returned.value
    /\ summaries[2] # summaries[1]
    /\ summaries[3] = summaries[1]
    /\ currentSummary = summaries[1]
    /\ nGenerations = 3
    /\ summaryError = NULL

\* the step in which caller k starts a generateSummary call
GenerationStarts(k) == ~Generating(k) /\ nGenerations' = nGenerations + 1 /\ gen'[k] # gen[k]

\* C29: a generateSummary call always returns, the result on success and
\* null on failure; a call during which no other generation is in flight
\* sees isGenerating true from its start until it resumes after
\* generateWithPolling, and leaves isGenerating false and progressMessage
\* empty; with no noteId the call returns null at once, with no request and
\* no change of the hook's state.
C29_SettlesCleanly ==
  [][\A k \in Generators :
       /\ gen'[k].pc = "done" =>
            /\ gen'[k].returned.kind = "returned"
            /\ gen'[k].outcome.kind = "resolved" => gen'[k].returned.value = gen'[k].outcome.value
            /\ gen'[k].outcome.kind # "resolved" => gen'[k].returned.value = NoSummary
       /\ (gen'[k].pc \notin {"idle", "done"} /\ gen'[k].alone) => isGenerating' = TRUE
       /\ GenerationEnds(k) =>
            /\ isGenerating' = FALSE
            /\ progressMessage' = Msg("")
       /\ (\A j \in Generators : gen'[j].pc \in {"idle", "done"}) =>
            /\ isGenerating' = FALSE
            /\ progressMessage' = Msg("")
       /\ (GenerationStarts(k) /\ hookNoteId = NoNumber) =>
            /\ gen'[k].pc = "done"
            /\ gen'[k].returned = Returned(NoSummary)
            /\ gen'[k].nRequests = 0
            /\ UNCHANGED <<summaries, currentSummary, isGenerating, progressMessage, summaryError>>
       /\ (GenerationStarts(k) /\ hookNoteId # NoNumber /\ hookNoteId # 0) =>
            /\ gen'[k].pc = "submitting"
            /\ isGenerating' = TRUE]_vars

\* a call made alone whose job failed: it returned null, and the hook shows
\* no generation and no progress message
C29_Witness ==
  \E k \in Generators :
    /\ gen[k].pc = "done"
    /\ gen[k].alone
    /\ gen[k].outcome = Rejected(JsError(Msg("boom")))
    /\ gen[k].returned = Returned(NoSummary)
    /\ gen[k].nRequests = 2
    /\ isGenerating = FALSE
    /\ progressMessage = Msg("")
    /\ summaryError = "Failed to generate summary"

\* the error of a generateWithPolling that failed without an ApiServiceError
PlainFailures ==
  { JsError(Msg("Summary generation timed out")), JsError(Msg("No job ID returned")) }
  \cup { JsError(Msg(failureMessage(r))) : r \in {a \in StatusResponses : IsFailed(a)} }

\* the invocation of generateWithPolling modelled on its own rejects with an
\* ApiServiceError of the interceptor or with one of these errors
RejectsAsInHook ==
  outcome.kind = "rejected" =>
    \/ outcome.error \in PlainFailures
    \/ outcome.error \in {responseInterceptor(e) : e \in AxiosErrors}

\* C30: when generateWithPolling fails with an error that is not an
\* ApiServiceError (failed job, timeout, missing job id), generateSummary sets
\* the hook's error to "Failed to generate summary"; an ApiServiceError
\* surfaces its own detail.
C30_FailureMessage ==
  [][\A k \in Generators :
       GenerationFails(k) =>
         /\ gen[k].outcome.error.name \in {"Error", "ApiServiceError"}
         /\ gen[k].outcome.error.name = "Error" =>
              /\ gen[k].outcome.error \in PlainFailures
              /\ summaryError' = "Failed to generate summary"
         /\ gen[k].outcome.error.name = "ApiServiceError" =>
              summaryError' = gen[k].outcome.error.detail]_vars

\* three generations failed, by timeout, by a failed job and by a missing job
\* id: each left the same error text
C30_Witness ==
  /\ summaryError = "Failed to generate summary"
  /\ nGenerations = 3
  /\ \E k \in Generators :
       /\ gen[k].pc = "done"
       /\ gen[k].outcome = Rejected(JsError(Msg("Summary generation timed out")))
  /\ \E k \in Generators :
       /\ gen[k].pc = "done"
       /\ gen[k].outcome \in {Rejected(JsError(Msg("boom"))), Rejected(JsError(Msg("No job ID returned")))}

(***************************************************************************)
(* More properties of useNotes and notesCache.                             *)
(***************************************************************************)
\* refresh call k takes a step: it starts, its list request fails, or its
\* cache read returns
RefreshStarts(k) == ~Refreshing(k) /\ refreshCall'[k].pc = "list"
ListFailsStep(k) == refreshCall[k].pc = "list" /\ refreshCall'[k].pc = "getNotes"
ReadReturnsStep(k) == refreshCall[k].pc = "getNotes" /\ refreshCall'[k].pc = "done"
\* what getNotes returns in that step was empty
ReadWasEmpty == lastRead'.cachedNotes = <<>>

\* C27: a refresh whose list request fails sets the error and reads the
\* cache; when getNotes returns the empty list (no blob, or a blob five
\* minutes old or older) none of its steps changes the notes list, it ends
\* with isLoading false, and the items of a stale blob are not copied.
C27_FailedRefreshKeepsNotes ==
  [][\A k \in Refreshers :
       /\ RefreshStarts(k) => notes' = notes
       /\ ListFailsStep(k) =>
            /\ notes' = notes
            /\ notesError' # NULL
            /\ refreshCall'[k].failed
       /\ ReadReturnsStep(k) =>
            /\ refreshCall[k].failed
            /\ notesIsLoading' = FALSE
            /\ notesError' = notesError
            /\ (NOTES_CACHE = NoCache \/ now - NOTES_CACHE.timestamp >= FiveMinutes) => ReadWasEmpty
            /\ ReadWasEmpty => notes' = notes]_vars

\* a failed refresh read a stale blob whose item is not in the notes list,
\* which still holds what an earlier refresh fetched
C27_Witness ==
  \E k \in Refreshers :
    /\ refreshCall[k].pc = "done"
    /\ refreshCall[k].failed
    /\ lastRead.readable
    /\ lastRead.stored # NoCache
    /\ lastRead.at - lastRead.stored.timestamp = FiveMinutes
    /\ lastRead.cachedNotes = <<>>
    /\ lastRead.stored.notes = <<1>>
    /\ notes = <<2>>
    /\ notesError # NULL
    /\ notesIsLoading = FALSE

\* the ids held in the notes list
Listed == {notes[j] : j \in 1..Len(notes)}

\* C28: a note removed by a successful deleteNote is not in the notes list in
\* any later state, unless a later successful list request has returned it;
\* a failed refresh that falls back to the cache does not bring it back.
C28_DeletedStayDeleted == \A n \in gone : n \notin Listed

\* a first refresh fetched and cached <<1, 2>>, note 1 was deleted, and a
\* second refresh failed and took the cached list, less than five minutes old
DeletedNoteRestored ==
  /\ faults = <<>>
  /\ nNoteCreates = 0
  /\ nRefreshes = 2
  /\ refreshCall[Refresher].pc = "done" /\ refreshCall[Refresher].failed
  /\ deleteCall.pc = "done" /\ deleteCall.returned = Returned(TRUE)
  /\ gone = {1}
  /\ lastRead.stored = CacheBlob(<<1, 2>>, 0)
  /\ notes = <<1, 2>>

(***************************************************************************)
(* Properties of the persisted keys.                                       *)
(***************************************************************************)
CacheWritten == NOTES_CACHE' # NOTES_CACHE /\ NOTES_CACHE' # NoCache
CacheRemoved == NOTES_CACHE # NoCache /\ NOTES_CACHE' = NoCache
IdentityWritten ==
  \/ USER_DATA' # USER_DATA /\ USER_DATA' # NoUser
  \/ GUEST_ID' # GUEST_ID /\ GUEST_ID' # NULL
IdentityRemoved ==
  \/ USER_DATA # NoUser /\ USER_DATA' = NoUser
  \/ GUEST_ID # NULL /\ GUEST_ID' = NULL
BlobsUnchanged == UNCHANGED <<USER_DATA, GUEST_ID, NOTES_CACHE>>

\* the step is one of ...
StorageClearStep == nClears' = nClears + 1
InitializeUserStep == \E i \in Calls : call[i].op = "initializeUser" /\ call'[i].pc # call[i].pc
ClearUserStep == \E i \in Calls : call[i].op = "clearUser" /\ call'[i].pc # call[i].pc
SuccessfulRefreshStep == \E k \in Refreshers : WriteReturnsStep(k) /\ ~refreshCall[k].failed
FailedRefreshStep == \E k \in Refreshers : refreshCall'[k] # refreshCall[k] /\ refreshCall'[k].failed
GenerateStep == pollVars' # pollVars \/ summaryVars' # summaryVars
DeleteNoteStep == deleteCall' # deleteCall
UpdateNoteStep == updateCall' # updateCall
\* a step of createNote itself / of createNote or of the refresh it awaits
CreateNoteOwnStep ==
  refreshCall'[Creator] # refreshCall[Creator] /\ "create" \in {refreshCall[Creator].pc, refreshCall'[Creator].pc}
CreateNoteStep == refreshCall'[Creator] # refreshCall[Creator]

\* what C26 says of every step, createNote apart
OwnershipApartFromCreateNote ==
  /\ GenerateStep => BlobsUnchanged
  /\ CacheWritten => SuccessfulRefreshStep
  /\ CacheRemoved => StorageClearStep
  /\ IdentityWritten => InitializeUserStep
  /\ IdentityRemoved => (ClearUserStep \/ StorageClearStep)
  /\ (DeleteNoteStep \/ UpdateNoteStep \/ FailedRefreshStep) => BlobsUnchanged

\* C26 as claimed: generateWithPolling and generateSummary change no
\* persisted key; the listing cache is written only by a successful refresh
\* and removed only by clearCache or storage.clear; the identity and the
\* guest token are written only by initializeUser and removed only by
\* clearUser or storage.clear; createNote, deleteNote, updateNote and a
\* failed refresh leave the three blobs unchanged.
C26_Ownership ==
  [][/\ OwnershipApartFromCreateNote
     /\ CreateNoteStep => BlobsUnchanged]_vars

\* C26 amended: the same, createNote leaving the three blobs unchanged in its
\* own steps (the create request and its failure), while the refresh it
\* awaits after a successful create writes the listing cache as any
\* successful refresh does.
C26_OwnershipCreateNoteRefreshes ==
  [][/\ OwnershipApartFromCreateNote
     /\ CreateNoteOwnStep => BlobsUnchanged
     /\ (CreateNoteStep /\ ~BlobsUnchanged) =>
          (WriteReturnsStep(Creator) /\ UNCHANGED <<USER_DATA, GUEST_ID>>)]_vars

\* createNote has ended after its refresh wrote the list it fetched into the
\* cache, and a deleteNote has ended; identity and token are as they were
C26_Witness ==
  /\ nNoteCreates = 1
  /\ refreshCall[Creator].pc = "done" /\ ~refreshCall[Creator].failed
  /\ NOTES_CACHE = CacheBlob(<<2>>, 0)
  /\ deleteCall.pc = "done" /\ deleteCall.returned = Returned(TRUE)
  /\ notes = <<2>>
  /\ faults = <<>>
  /\ USER_DATA = NoUser
  /\ GUEST_ID = GuestToken(0)

====
